---- MODULE Spec2Model ----
(***************************************************************************)
(* A model of wsh's plugin context registry (help.go: PluginRegistry),     *)
(* its argument resolution engine (PluginRegistry.Parse) and the plugin    *)
(* bootstrap (plugin_loader.go: LoadPlugins / executePlugin).              *)
(*                                                                         *)
(* Runes are one-character strings, Go strings that the code takes apart   *)
(* (command-line tokens, flag and context long names) are sequences of     *)
(* runes, and Go strings that the code only compares or prints (script     *)
(* paths, descriptions) are kept whole, as a sequence of one piece of      *)
(* text.  A Go pointer that may be nil is a sequence of length at most     *)
(* one: <<>> is nil, <<v>> points to v.                                    *)
(***************************************************************************)
EXTENDS Integers, Sequences, FiniteSets, TLC

VARIABLES
    contexts,     \* PluginRegistry.contexts: map[rune]*PluginContext
    op,           \* the registry call that has just returned, or "idle"
    regArg,       \* Register: its argument (nil before any call)
    regErr,       \* Register: the error it returned
    lookupPath,   \* Lookup: its argument
    lookupRes,    \* Lookup: the node it returned
    allRes,       \* GetAllContexts: the slice it returned
    parseArgs,    \* Parse: its argument
    parseRet,     \* Parse: the (result, error) pair it returned
    scripts,      \* LoadPlugins: the discovered scripts, in directory order
    lpc,          \* LoadPlugins: position of the calling goroutine
    wpc,          \* per script: position of its worker goroutine
    child,        \* per script: state of its child process
    doneChan,     \* per script: executePlugin's buffered channel `done`
    ctxChan,      \* LoadPlugins: buffered channel of parsed contexts
    errChan,      \* LoadPlugins: buffered channel of worker errors
    killed,       \* per script: cmd.Process.Kill() was called
    loadRet,      \* LoadPlugins: the error it returned
    hOp,          \* the call of args.go that has just returned, or "idle"
    hArgs,        \* HandleArgs: its argument list (os.Args[2:])
    hScript,      \* HandleArgs: WSH_PLUGIN_SCRIPT in the environment of the process
    hDef,         \* handleRegister: what parsePluginDefinition returned
    hExit,        \* HandleArgs: the exit code it returned (nil before any call)
    hOut,         \* HandleArgs: what it wrote to standard output
    hReg,         \* HandleArgs: the registry of the process on return
    mpc,          \* main: its position
    osArgs,       \* main: os.Args[1:]
    mainRet,      \* main: the (result, error) pair Parse returned to it
    mainExit,     \* main: the code it passed to os.Exit (nil while running)
    pluginDir,    \* the plugin directory GetPluginDir() names
    mu,           \* PluginRegistry.mu: the writer holding it, the readers holding it
    cpc,          \* per calling goroutine: its position in its call
    ccall,        \* per calling goroutine: the call it makes
    cret,         \* per calling goroutine: what its call returns
    cseen,        \* per calling goroutine: the keys its range loop has visited
    mapBusy,      \* a write of the map r.contexts is in progress
    torn,         \* a goroutine has read the map while it was being written
    exOp,         \* "ExecutePlugin" when it has just returned, or "idle"
    exCtx,        \* ExecutePlugin: the context it was given
    exFile,       \* ExecutePlugin: what is at the path of the context's script
    exChild,      \* ExecutePlugin: what the child it launched did
    exLaunched,   \* ExecutePlugin: the process it launched (nil if none)
    exRet,        \* ExecutePlugin: the code it returned
    pps           \* Parse: the state of the loops of the call in progress (nil if none)

regVars  == <<op, regArg, regErr, lookupPath, lookupRes, allRes, parseArgs, parseRet>>
loadVars == <<scripts, lpc, wpc, child, doneChan, ctxChan, errChan, killed, loadRet>>
argsVars == <<hOp, hArgs, hScript, hDef, hExit, hOut, hReg>>
mainVars == <<mpc, osArgs, mainRet, mainExit, pluginDir>>
concVars == <<mu, cpc, ccall, cret, cseen, mapBusy, torn>>
execVars == <<exOp, exCtx, exFile, exChild, exLaunched, exRet>>
stepVars == <<pps>>
extVars  == <<argsVars, mainVars, concVars, execVars, stepVars>>
vars     == <<contexts, regVars, loadVars, extVars>>

----------------------------------------------------------------------------
(* Bounds of the model.                                                    *)

MaxArgs == 3        \* longest argument list handed to Parse
MaxPath == 3        \* longest context path handed to Lookup

----------------------------------------------------------------------------
(* Runes and strings.                                                      *)

UpperRunes == {"A","B","C","D","E","F","G","H","I","J","K","L","M",
               "N","O","P","Q","R","S","T","U","V","W","X","Y","Z"}

NUL == "NUL"        \* the zero rune: Flag.Short when no short name is given

Nil == <<>>
Ptr(v) == <<v>>
Deref(p) == p[1]

EmptyMap == <<>>

MapPut(m, k, v) == [x \in (DOMAIN m) \cup {k} |-> IF x = k THEN v ELSE m[x]]

\* strings.HasPrefix(s, prefix)
HasPrefix(s, prefix) ==
    /\ Len(s) >= Len(prefix)
    /\ \A k \in 1..Len(prefix) : s[k] = prefix[k]

\* s[n:] for a Go string or slice (n is a 0-based offset, n <= len(s))
DropFirst(s, n) == SubSeq(s, n + 1, Len(s))

sTrue     == <<"t","r","u","e">>
sHelp     == <<"h","e","l","p">>
sTime     == <<"t","i","m","e">>
sTest     == <<"t","e","s","t">>
sOffline  == <<"o","f","f","l","i","n","e">>
sFrom     == <<"f","r","o","m">>
sDays     == <<"d","a","y","s">>
sOvertime == <<"o","v","e","r","t","i","m","e">>
sStart    == <<"s","t","a","r","t">>
sOther    == <<"o","t","h","e","r">>
sShell    == <<"s","h","e","l","l">>
sCommand  == <<"c","o","m","m","a","n","d">>
sCmd      == <<"c","m","d">>
sArgs     == <<"a","r","g","s">>
sRegister == <<"r","e","g","i","s","t","e","r">>

----------------------------------------------------------------------------
(* The context model: Flag and PluginContext values.                       *)

\* a string literal of the source that is kept whole
Text(s) == IF s = "" THEN <<>> ELSE << s >>

\* a flag of the test registries; its description is only ever printed
MkFlag(short, long, argName) ==
    [Short |-> short, Long |-> long, ArgName |-> argName,
     Description |-> Text("description")]

\* A node whose SubContexts map is nil.
MkLeaf(letter, long, desc, script, flags) ==
    [Context |-> letter, ContextLong |-> long, Description |-> desc,
     Script |-> script, Flags |-> flags, SubNil |-> TRUE, SubContexts |-> EmptyMap]

\* A node with a non-nil SubContexts map.
MkNode(letter, long, desc, script, flags, subs) ==
    [Context |-> letter, ContextLong |-> long, Description |-> desc,
     Script |-> script, Flags |-> flags, SubNil |-> FALSE, SubContexts |-> subs]

\* -O/--overtime below -T, with -s/--start <time>
OvertimeNode ==
    MkLeaf("O", sOvertime, Text("Overtime"), Text("./plugins/time.sh"),
           << MkFlag("s", sStart, sTime) >>)

\* -T/--time with -o/--offline, -f/--from <days> and the sub-context O
TimeNode ==
    MkNode("T", sTime, Text("Time tracking"), Text("./plugins/time.sh"),
           << MkFlag("o", sOffline, <<>>), MkFlag("f", sFrom, sDays) >>,
           [l \in {"O"} |-> OvertimeNode])

\* the same letter and script as TimeNode, every other field different
TimeAltNode ==
    MkLeaf("T", <<"t">>, Text("Time (again)"), Text("./plugins/time.sh"), <<>>)

\* the letter of TimeNode claimed by another script
TestNode ==
    MkLeaf("T", sTest, Text("Test"), Text("./plugins/test.sh"), << MkFlag("o", <<>>, <<>>) >>)

\* a root with the letter of TimeNode's sub-context; its -s is boolean
OtherNode ==
    MkLeaf("O", sOther, Text("Other"), Text("./plugins/other.sh"), << MkFlag("s", <<>>, <<>>) >>)

\* the built-in -S/--shell context with -c/--command <cmd>
ShellNode ==
    MkLeaf("S", sShell, Text("Shell operations"), Text(""),
           << MkFlag("c", sCommand, sCmd) >>)

\* the built-in -A/--args context
ArgsNode ==
    MkLeaf("A", sArgs, Text("Argument parser operations"), Text(""),
           << MkFlag("r", sRegister, <<>>) >>)

\* the nodes Register is called with
NodePool == {TimeNode, TimeAltNode, TestNode, OtherNode, ShellNode}

\* the letters Lookup is called with
PathLetters == {"T", "O", "S", "X"}

----------------------------------------------------------------------------
(* PluginRegistry.Register, Lookup, GetAllContexts as operators on the     *)
(* contexts map.                                                           *)

NoError == <<>>

\* the conflict error of Register: names the existing and the rejected script
ConflictError(letter, existing, rejected) ==
    << [kind |-> "conflict", letter |-> letter,
        existing |-> existing, rejected |-> rejected] >>

\* A Register that replaces the root on a conflict instead of keeping the first.
RegisterLastWins(m, ctx) ==
    IF ctx.Context \in DOMAIN m
    THEN IF m[ctx.Context].Script = ctx.Script
         THEN [contexts |-> MapPut(m, ctx.Context, ctx), err |-> NoError]
         ELSE [contexts |-> MapPut(m, ctx.Context, ctx),
               err |-> ConflictError(ctx.Context, m[ctx.Context].Script, ctx.Script)]
    ELSE [contexts |-> MapPut(m, ctx.Context, ctx), err |-> NoError]

\* A Register that keeps the first registrant but reports no conflict.
RegisterSilent(m, ctx) ==
    IF ctx.Context \in DOMAIN m
    THEN [contexts |-> m, err |-> NoError]
    ELSE [contexts |-> MapPut(m, ctx.Context, ctx), err |-> NoError]

\* Register: the new map and the returned error
RegisterOp(m, ctx) ==
    IF ctx.Context \in DOMAIN m
    THEN IF m[ctx.Context].Script = ctx.Script
         THEN [contexts |-> m, err |-> NoError]
         ELSE [contexts |-> m,
               err |-> ConflictError(ctx.Context, m[ctx.Context].Script, ctx.Script)]
    ELSE [contexts |-> MapPut(m, ctx.Context, ctx), err |-> NoError]

\* the loop of Lookup: ctx is the node reached, i the next (0-based) index
RECURSIVE LookupWalk(_, _, _)
LookupWalk(ctx, contextPath, i) ==
    IF i >= Len(contextPath) THEN Ptr(ctx)
    ELSE IF ctx.SubNil THEN Nil
    ELSE IF contextPath[i + 1] \notin DOMAIN ctx.SubContexts THEN Nil
    ELSE LookupWalk(ctx.SubContexts[contextPath[i + 1]], contextPath, i + 1)

\* A Lookup that returns the node of the resolvable prefix.
RECURSIVE LookupWalkPartial(_, _, _)
LookupWalkPartial(ctx, contextPath, i) ==
    IF i >= Len(contextPath) THEN Ptr(ctx)
    ELSE IF ctx.SubNil THEN Ptr(ctx)
    ELSE IF contextPath[i + 1] \notin DOMAIN ctx.SubContexts THEN Ptr(ctx)
    ELSE LookupWalkPartial(ctx.SubContexts[contextPath[i + 1]], contextPath, i + 1)

LookupPartial(m, contextPath) ==
    IF Len(contextPath) = 0 THEN Nil
    ELSE IF contextPath[1] \notin DOMAIN m THEN Nil
    ELSE LookupWalkPartial(m[contextPath[1]], contextPath, 1)

\* A Lookup that resolves the last letter among the roots.
LookupLastRoot(m, contextPath) ==
    IF Len(contextPath) = 0 THEN Nil
    ELSE IF contextPath[1] \notin DOMAIN m THEN Nil
    ELSE IF contextPath[Len(contextPath)] \in DOMAIN m
         THEN Ptr(m[contextPath[Len(contextPath)]])
         ELSE LookupWalk(m[contextPath[1]], contextPath, 1)

\* Lookup: the node at contextPath, or nil
Lookup(m, contextPath) ==
    IF Len(contextPath) = 0 THEN Nil
    ELSE IF contextPath[1] \notin DOMAIN m THEN Nil
    ELSE LookupWalk(m[contextPath[1]], contextPath, 1)

\* all orders in which a range over the map m can visit its keys
RECURSIVE MapOrders(_)
MapOrders(keys) ==
    IF keys = {} THEN { <<>> }
    ELSE UNION { { <<k>> \o rest : rest \in MapOrders(keys \ {k}) } : k \in keys }

\* GetAllContexts: the root nodes, in the order the range visits them
GetAllContextsOp(m) ==
    { [k \in 1..Len(ord) |-> m[ord[k]]] : ord \in MapOrders(DOMAIN m) }

----------------------------------------------------------------------------
(* PluginRegistry.Parse.  The state of the loop is a record: i and flagIdx *)
(* are the loop indices (0-based, as in the source), inCluster tells       *)
(* whether control is inside the loop over a short-flag cluster, cur is    *)
(* currentCtx, and ContextPath, Context, Flags, Args, ShowHelp are the     *)
(* fields of the ParseResult being filled.                                 *)

ParseInit ==
    [i |-> 0, inCluster |-> FALSE, flagIdx |-> 0, cur |-> Nil,
     ContextPath |-> <<>>, Context |-> Nil, Flags |-> EmptyMap, Args |-> <<>>,
     ShowHelp |-> FALSE, status |-> "run", err |-> NoError]

ParseError(kind, name) == << [kind |-> kind, name |-> name] >>

Fail(ps, kind, name) == [ps EXCEPT !.status = "err", !.err = ParseError(kind, name)]

\* A matchLongFlag that records a flag's value but does not step over it.
RECURSIVE MatchLongFlagFromNoSkip(_, _, _, _, _, _)
MatchLongFlagFromNoSkip(flagName, flags, k, resFlags, args, i) ==
    IF k > Len(flags) THEN [matched |-> FALSE, nextI |-> i, Flags |-> resFlags]
    ELSE IF flags[k].Long = flagName
    THEN IF flags[k].ArgName # <<>>
         THEN IF i + 1 < Len(args)
              THEN [matched |-> TRUE, nextI |-> i + 1,
                    Flags |-> MapPut(resFlags, flags[k].Long, args[i + 2])]
              ELSE [matched |-> FALSE, nextI |-> i, Flags |-> resFlags]
         ELSE [matched |-> TRUE, nextI |-> i + 1,
               Flags |-> MapPut(resFlags, flags[k].Long, sTrue)]
    ELSE MatchLongFlagFromNoSkip(flagName, flags, k + 1, resFlags, args, i)

\* the loop of matchLongFlag over ctx.Flags, from the k-th flag (1-based)
RECURSIVE MatchLongFlagFrom(_, _, _, _, _, _)
MatchLongFlagFrom(flagName, flags, k, resFlags, args, i) ==
    IF k > Len(flags) THEN [matched |-> FALSE, nextI |-> i, Flags |-> resFlags]
    ELSE IF flags[k].Long = flagName
    THEN IF flags[k].ArgName # <<>>
         THEN IF i + 1 < Len(args)
              THEN [matched |-> TRUE, nextI |-> i + 2,
                    Flags |-> MapPut(resFlags, flags[k].Long, args[i + 2])]
              ELSE [matched |-> FALSE, nextI |-> i, Flags |-> resFlags]
         ELSE [matched |-> TRUE, nextI |-> i + 1,
               Flags |-> MapPut(resFlags, flags[k].Long, sTrue)]
    ELSE MatchLongFlagFrom(flagName, flags, k + 1, resFlags, args, i)

\* matchLongFlag: whether a flag matched, the next index, the flag map
matchLongFlag(flagName, ctx, resFlags, args, i) ==
    IF ctx = Nil THEN [matched |-> FALSE, nextI |-> i, Flags |-> resFlags]
    ELSE MatchLongFlagFrom(flagName, Deref(ctx).Flags, 1, resFlags, args, i)

\* findContextByLong: the nodes the two range loops can return.  The order
\* of a range over a map is unspecified, so with several matches any of
\* them may be the first one met.
findContextByLong(m, longName, currentCtx) ==
    LET subs == IF currentCtx # Nil /\ ~Deref(currentCtx).SubNil
                THEN { Deref(currentCtx).SubContexts[l] :
                         l \in { x \in DOMAIN Deref(currentCtx).SubContexts :
                                   Deref(currentCtx).SubContexts[x].ContextLong = longName } }
                ELSE {}
        roots == { m[l] : l \in { x \in DOMAIN m : m[x].ContextLong = longName } }
    IN  IF subs # {} THEN { Ptr(c) : c \in subs }
        ELSE IF roots # {} THEN { Ptr(c) : c \in roots }
        ELSE { Nil }

\* the loop of findFlagInContext over ctx.Flags, from the k-th flag
RECURSIVE FindFlagFrom(_, _, _)
FindFlagFrom(ch, flags, k) ==
    IF k > Len(flags) THEN Nil
    ELSE IF flags[k].Short = ch THEN Ptr(flags[k])
    ELSE FindFlagFrom(ch, flags, k + 1)

\* A loop over ctx.Flags that keeps the last flag it meets with short name
\* ch, and the lookup made with it.
RECURSIVE FindLastFlagFrom(_, _, _, _)
FindLastFlagFrom(ch, flags, k, found) ==
    IF k > Len(flags) THEN found
    ELSE FindLastFlagFrom(ch, flags, k + 1,
                          IF flags[k].Short = ch THEN Ptr(flags[k]) ELSE found)

findFlagInContextLast(ch, ctx) ==
    IF ctx = Nil THEN Nil ELSE FindLastFlagFrom(ch, Deref(ctx).Flags, 1, Nil)

\* findFlagInContext: the first flag of ctx with short name ch, or nil
findFlagInContext(ch, ctx) ==
    IF ctx = Nil THEN Nil ELSE FindFlagFrom(ch, Deref(ctx).Flags, 1)

\* A default to S that leaves the resolved context of the result alone.
DefaultToShellCursorOnly(m, ps) ==
    IF ps.cur = Nil
    THEN LET s == Lookup(m, <<"S">>)
         IN  [ps EXCEPT !.cur = s]
    ELSE ps

\* "if currentCtx == nil { currentCtx = r.Lookup('S'); ... }"
DefaultToShell(m, ps) ==
    IF ps.cur = Nil
    THEN LET s == Lookup(m, <<"S">>)
         IN  [ps EXCEPT !.cur = s, !.Context = IF s # Nil THEN s ELSE ps.Context]
    ELSE ps

\* A long-flag step that sets the help flag and stays on the token.
LongStepHelpStays(m, args, ps0) ==
    LET arg == args[ps0.i + 1]
        flagName == DropFirst(arg, 2)
    IN  IF flagName = sHelp
        THEN { [ps0 EXCEPT !.ShowHelp = TRUE] }
        ELSE
          LET ps == DefaultToShell(m, ps0)
              r  == matchLongFlag(flagName, ps.cur, ps.Flags, args, ps.i)
          IN  IF r.matched
              THEN { [ps EXCEPT !.Flags = r.Flags, !.i = r.nextI] }
              ELSE { IF ctx # Nil
                     THEN [ps EXCEPT !.cur = ctx,
                                     !.ContextPath = Append(ps.ContextPath, Deref(ctx).Context),
                                     !.Context = ctx,
                                     !.i = ps.i + 1]
                     ELSE Fail(ps, "unknown flag", arg)
                     : ctx \in findContextByLong(m, flagName, ps.cur) }

\* A long-flag step that tries the long names of contexts before the flags
\* of the current context.
LongStepContextFirst(m, args, ps0) ==
    LET arg == args[ps0.i + 1]
        flagName == DropFirst(arg, 2)
    IN  IF flagName = sHelp
        THEN { [ps0 EXCEPT !.ShowHelp = TRUE, !.i = ps0.i + 1] }
        ELSE
          LET ps == DefaultToShell(m, ps0)
              r  == matchLongFlag(flagName, ps.cur, ps.Flags, args, ps.i)
          IN  { IF ctx # Nil
                THEN [ps EXCEPT !.cur = ctx,
                                !.ContextPath = Append(ps.ContextPath, Deref(ctx).Context),
                                !.Context = ctx,
                                !.i = ps.i + 1]
                ELSE IF r.matched
                THEN [ps EXCEPT !.Flags = r.Flags, !.i = r.nextI]
                ELSE Fail(ps, "unknown flag", arg)
                : ctx \in findContextByLong(m, flagName, ps.cur) }

\* one pass of the body of "for i < len(args)" for a "--name" token
LongStep(m, args, ps0) ==
    LET arg == args[ps0.i + 1]
        flagName == DropFirst(arg, 2)
    IN  IF flagName = sHelp
        THEN { [ps0 EXCEPT !.ShowHelp = TRUE, !.i = ps0.i + 1] }
        ELSE
          LET ps == DefaultToShell(m, ps0)
              r  == matchLongFlag(flagName, ps.cur, ps.Flags, args, ps.i)
          IN  IF r.matched
              THEN { [ps EXCEPT !.Flags = r.Flags, !.i = r.nextI] }
              ELSE { IF ctx # Nil
                     THEN [ps EXCEPT !.cur = ctx,
                                     !.ContextPath = Append(ps.ContextPath, Deref(ctx).Context),
                                     !.Context = ctx,
                                     !.i = ps.i + 1]
                     ELSE Fail(ps, "unknown flag", arg)
                     : ctx \in findContextByLong(m, flagName, ps.cur) }

\* A context switch that tries the roots before the cursor's sub-contexts.
SwitchContextRootFirst(m, ps0, ch) ==
    LET ctx == Lookup(m, <<ch>>)
    IN  IF ctx # Nil
        THEN [ps0 EXCEPT !.cur = ctx,
                         !.ContextPath = <<ch>>,
                         !.Context = ctx,
                         !.flagIdx = ps0.flagIdx + 1]
        ELSE IF /\ ps0.cur # Nil
                /\ ~Deref(ps0.cur).SubNil
                /\ ch \in DOMAIN Deref(ps0.cur).SubContexts
        THEN LET subCtx == Ptr(Deref(ps0.cur).SubContexts[ch])
             IN  [ps0 EXCEPT !.cur = subCtx,
                             !.ContextPath = Append(ps0.ContextPath, ch),
                             !.Context = subCtx,
                             !.flagIdx = ps0.flagIdx + 1]
        ELSE Fail(ps0, "unknown context", <<ch>>)

\* A context switch that appends the letter of a root to the path.
SwitchContextAppend(m, ps0, ch) ==
    IF /\ ps0.cur # Nil
       /\ ~Deref(ps0.cur).SubNil
       /\ ch \in DOMAIN Deref(ps0.cur).SubContexts
    THEN LET subCtx == Ptr(Deref(ps0.cur).SubContexts[ch])
         IN  [ps0 EXCEPT !.cur = subCtx,
                         !.ContextPath = Append(ps0.ContextPath, ch),
                         !.Context = subCtx,
                         !.flagIdx = ps0.flagIdx + 1]
    ELSE LET ctx == Lookup(m, <<ch>>)
         IN  IF ctx # Nil
             THEN [ps0 EXCEPT !.cur = ctx,
                              !.ContextPath = Append(ps0.ContextPath, ch),
                              !.Context = ctx,
                              !.flagIdx = ps0.flagIdx + 1]
             ELSE Fail(ps0, "unknown context", <<ch>>)

\* A switch to a root context that starts a new flag map.
SwitchContextClears(m, ps0, ch) ==
    IF /\ ps0.cur # Nil
       /\ ~Deref(ps0.cur).SubNil
       /\ ch \in DOMAIN Deref(ps0.cur).SubContexts
    THEN LET subCtx == Ptr(Deref(ps0.cur).SubContexts[ch])
         IN  [ps0 EXCEPT !.cur = subCtx,
                         !.ContextPath = Append(ps0.ContextPath, ch),
                         !.Context = subCtx,
                         !.flagIdx = ps0.flagIdx + 1]
    ELSE LET ctx == Lookup(m, <<ch>>)
         IN  IF ctx # Nil
             THEN [ps0 EXCEPT !.cur = ctx,
                              !.ContextPath = <<ch>>,
                              !.Flags = EmptyMap,
                              !.Context = ctx,
                              !.flagIdx = ps0.flagIdx + 1]
             ELSE Fail(ps0, "unknown context", <<ch>>)

\* "if ch >= 'A' && ch <= 'Z'": an uppercase letter ch in a cluster
SwitchContext(m, ps0, ch) ==
    IF /\ ps0.cur # Nil
       /\ ~Deref(ps0.cur).SubNil
       /\ ch \in DOMAIN Deref(ps0.cur).SubContexts
    THEN LET subCtx == Ptr(Deref(ps0.cur).SubContexts[ch])
         IN  [ps0 EXCEPT !.cur = subCtx,
                         !.ContextPath = Append(ps0.ContextPath, ch),
                         !.Context = subCtx,
                         !.flagIdx = ps0.flagIdx + 1]
    ELSE LET ctx == Lookup(m, <<ch>>)
         IN  IF ctx # Nil
             THEN [ps0 EXCEPT !.cur = ctx,
                              !.ContextPath = <<ch>>,
                              !.Context = ctx,
                              !.flagIdx = ps0.flagIdx + 1]
             ELSE Fail(ps0, "unknown context", <<ch>>)

\* the key a flag's value is stored under
FlagKey(flag) == IF flag.Long = <<>> THEN << flag.Short >> ELSE flag.Long

\* A short flag that takes its value from the next token wherever it stands
\* in its cluster.
ShortFlagAnywhere(m, args, ps0, flags, ch) ==
    LET ps   == DefaultToShell(m, ps0)
        flag == findFlagInContext(ch, ps.cur)
    IN  IF flag = Nil THEN Fail(ps, "unknown flag", <<ch>>)
        ELSE IF Deref(flag).ArgName # <<>>
        THEN IF ps.i + 1 < Len(args)
             THEN [ps EXCEPT !.Flags = MapPut(ps.Flags, FlagKey(Deref(flag)), args[ps.i + 2]),
                             !.i = ps.i + 2,
                             !.inCluster = FALSE]
             ELSE Fail(ps, "requires an argument", <<ch>>)
        ELSE [ps EXCEPT !.Flags = MapPut(ps.Flags, FlagKey(Deref(flag)), sTrue),
                        !.flagIdx = ps.flagIdx + 1]

\* A short flag that is looked up in the root of the context path when the
\* current context does not declare it.
ShortFlagInherits(m, args, ps0, flags, ch) ==
    LET ps   == DefaultToShell(m, ps0)
        own  == findFlagInContext(ch, ps.cur)
        flag == IF own = Nil /\ ps.ContextPath # <<>>
                THEN findFlagInContext(ch, Lookup(m, <<ps.ContextPath[1]>>))
                ELSE own
    IN  IF flag = Nil THEN Fail(ps, "unknown flag", <<ch>>)
        ELSE IF Deref(flag).ArgName # <<>>
        THEN IF ps.flagIdx < Len(flags) - 1
             THEN Fail(ps, "requires an argument", <<ch>>)
             ELSE IF ps.i + 1 < Len(args)
             THEN [ps EXCEPT !.Flags = MapPut(ps.Flags, FlagKey(Deref(flag)), args[ps.i + 2]),
                             !.i = ps.i + 2,
                             !.inCluster = FALSE]
             ELSE Fail(ps, "requires an argument", <<ch>>)
        ELSE [ps EXCEPT !.Flags = MapPut(ps.Flags, FlagKey(Deref(flag)), sTrue),
                        !.flagIdx = ps.flagIdx + 1]

\* A short flag that records the next token as its value and leaves it to
\* be looked at again.
ShortFlagKeepsValue(m, args, ps0, flags, ch) ==
    LET ps   == DefaultToShell(m, ps0)
        flag == findFlagInContext(ch, ps.cur)
    IN  IF flag = Nil THEN Fail(ps, "unknown flag", <<ch>>)
        ELSE IF Deref(flag).ArgName # <<>>
        THEN IF ps.flagIdx < Len(flags) - 1
             THEN Fail(ps, "requires an argument", <<ch>>)
             ELSE IF ps.i + 1 < Len(args)
             THEN [ps EXCEPT !.Flags = MapPut(ps.Flags, FlagKey(Deref(flag)), args[ps.i + 2]),
                             !.i = ps.i + 1,
                             !.inCluster = FALSE]
             ELSE Fail(ps, "requires an argument", <<ch>>)
        ELSE [ps EXCEPT !.Flags = MapPut(ps.Flags, FlagKey(Deref(flag)), sTrue),
                        !.flagIdx = ps.flagIdx + 1]

\* a character ch of a cluster that is neither 'h' nor uppercase; flags is
\* the cluster without its '-'
ShortFlag(m, args, ps0, flags, ch) ==
    LET ps   == DefaultToShell(m, ps0)
        flag == findFlagInContext(ch, ps.cur)
    IN  IF flag = Nil THEN Fail(ps, "unknown flag", <<ch>>)
        ELSE IF Deref(flag).ArgName # <<>>
        THEN IF ps.flagIdx < Len(flags) - 1
             THEN Fail(ps, "requires an argument", <<ch>>)
             ELSE IF ps.i + 1 < Len(args)
             THEN \* record the value, "i++; break", then "i++; continue"
                  [ps EXCEPT !.Flags = MapPut(ps.Flags, FlagKey(Deref(flag)), args[ps.i + 2]),
                             !.i = ps.i + 2,
                             !.inCluster = FALSE]
             ELSE Fail(ps, "requires an argument", <<ch>>)
        ELSE [ps EXCEPT !.Flags = MapPut(ps.Flags, FlagKey(Deref(flag)), sTrue),
                        !.flagIdx = ps.flagIdx + 1]

\* A cluster loop that looks h up among the flags of the current context
\* before it takes it for the help flag.
ClusterStepHelpFlag(m, args, ps0) ==
    LET flags == DropFirst(args[ps0.i + 1], 1)
        ch    == flags[ps0.flagIdx + 1]
    IN  IF ch = "h" /\ findFlagInContext(ch, ps0.cur) = Nil
        THEN [ps0 EXCEPT !.ShowHelp = TRUE, !.flagIdx = ps0.flagIdx + 1]
        ELSE IF ch \in UpperRunes
        THEN SwitchContext(m, ps0, ch)
        ELSE ShortFlag(m, args, ps0, flags, ch)

\* one pass of the body of "for flagIdx < len(flags)" inside a "-xyz" token
ClusterStep(m, args, ps0) ==
    LET flags == DropFirst(args[ps0.i + 1], 1)
        ch    == flags[ps0.flagIdx + 1]
    IN  IF ch = "h"
        THEN [ps0 EXCEPT !.ShowHelp = TRUE, !.flagIdx = ps0.flagIdx + 1]
        ELSE IF ch \in UpperRunes
        THEN SwitchContext(m, ps0, ch)
        ELSE ShortFlag(m, args, ps0, flags, ch)

\* A Parse that takes everything from the first positional token on as
\* positional.
ParseStepStopAtPositional(m, args, ps) ==
    IF ps.inCluster
    THEN IF ps.flagIdx < Len(DropFirst(args[ps.i + 1], 1))
         THEN { ClusterStep(m, args, ps) }
         ELSE { [ps EXCEPT !.i = ps.i + 1, !.inCluster = FALSE] }
    ELSE IF ps.i >= Len(args)
    THEN { [ps EXCEPT !.status = "ok"] }
    ELSE LET arg == args[ps.i + 1]
         IN  IF HasPrefix(arg, <<"-","-">>)
             THEN LongStep(m, args, ps)
             ELSE IF HasPrefix(arg, <<"-">>) /\ Len(arg) > 1
             THEN { [ps EXCEPT !.inCluster = TRUE, !.flagIdx = 0] }
             ELSE { [ps EXCEPT !.Args = ps.Args \o DropFirst(args, ps.i),
                               !.i = Len(args)] }

\* one step of Parse: the states control can be in after it
ParseStep(m, args, ps) ==
    IF ps.inCluster
    THEN IF ps.flagIdx < Len(DropFirst(args[ps.i + 1], 1))
         THEN { ClusterStep(m, args, ps) }
         ELSE { [ps EXCEPT !.i = ps.i + 1, !.inCluster = FALSE] }
    ELSE IF ps.i >= Len(args)
    THEN { [ps EXCEPT !.status = "ok"] }
    ELSE LET arg == args[ps.i + 1]
         IN  IF HasPrefix(arg, <<"-","-">>)
             THEN LongStep(m, args, ps)
             ELSE IF HasPrefix(arg, <<"-">>) /\ Len(arg) > 1
             THEN { [ps EXCEPT !.inCluster = TRUE, !.flagIdx = 0] }
             ELSE { [ps EXCEPT !.Args = Append(ps.Args, arg), !.i = ps.i + 1] }

\* Parse run to its return from every state of S
RECURSIVE ParseRun(_, _, _)
ParseRun(m, args, S) ==
    IF \A ps \in S : ps.status # "run" THEN S
    ELSE ParseRun(m, args,
                  UNION { IF ps.status = "run" THEN ParseStep(m, args, ps) ELSE {ps}
                          : ps \in S })

\* every state the loop of Parse(args) passes through, final ones included
RECURSIVE ParseReach(_, _, _, _)
ParseReach(m, args, seen, frontier) ==
    IF frontier = {} THEN seen
    ELSE LET next == UNION { IF ps.status = "run" THEN ParseStep(m, args, ps) ELSE {}
                             : ps \in frontier }
         IN  ParseReach(m, args, seen \cup frontier, next \ (seen \cup frontier))

ParseStates(m, args) == ParseReach(m, args, {}, {ParseInit})

\* the ParseResult built from the loop's state
ResultOf(ps) ==
    [ContextPath |-> ps.ContextPath, Context |-> ps.Context, Flags |-> ps.Flags,
     Args |-> ps.Args, ShowHelp |-> ps.ShowHelp]

\* A Parse that hands out the partly filled result together with the error.
ParseReturnPartial(ps) ==
    [result |-> Ptr(ResultOf(ps)), err |-> ps.err]

\* what Parse returns: (result, nil) or (nil, error)
ParseReturn(ps) ==
    IF ps.status = "err"
    THEN [result |-> Nil, err |-> ps.err]
    ELSE [result |-> Ptr(ResultOf(ps)), err |-> NoError]

\* Parse: the (result, error) pairs a call can return
Parse(m, args) ==
    { ParseReturn(ps) : ps \in ParseRun(m, args, {ParseInit}) }

----------------------------------------------------------------------------
(* The calls made on the registry.                                         *)

tTof     == <<"-","T","o","f">>
tT       == <<"-","T">>
tfo      == <<"-","f","o">>
tTOs     == <<"-","T","O","s">>
tf       == <<"-","f">>
tX       == <<"-","X">>
tOffline == <<"-","-">> \o sOffline
tFrom    == <<"-","-">> \o sFrom
tTime    == <<"-","-">> \o sTime
t5       == <<"5">>
t0900    == <<"0","9",":","0","0">>
tDashDash == <<"-","-">>

\* the tokens Parse is called with
Vocab == {tTof, tT, tfo, tTOs, tf, tX, tOffline, tFrom, tTime, t5, t0900, tDashDash}

ArgLists == UNION { [1..n -> Vocab] : n \in 0..MaxArgs }

Paths == UNION { [1..n -> PathLetters] : n \in 0..MaxPath }

NoParse == [result |-> Nil, err |-> NoError]

\* r.Register(ctx)
Register(ctx) ==
    LET r == RegisterOp(contexts, ctx)
    IN  /\ contexts' = r.contexts
        /\ op' = "Register"
        /\ regArg' = Ptr(ctx)
        /\ regErr' = r.err
        /\ lookupPath' = <<>> /\ lookupRes' = Nil /\ allRes' = <<>>
        /\ parseArgs' = <<>> /\ parseRet' = NoParse
        /\ UNCHANGED <<loadVars, extVars>>

\* r.Lookup(path)
DoLookup(path) ==
    /\ op' = "Lookup"
    /\ lookupPath' = path
    /\ lookupRes' = Lookup(contexts, path)
    /\ regArg' = Nil /\ regErr' = NoError /\ allRes' = <<>>
    /\ parseArgs' = <<>> /\ parseRet' = NoParse
    /\ UNCHANGED <<contexts, loadVars, extVars>>

\* r.GetAllContexts()
DoGetAllContexts ==
    /\ op' = "GetAllContexts"
    /\ allRes' \in GetAllContextsOp(contexts)
    /\ regArg' = Nil /\ regErr' = NoError /\ lookupPath' = <<>> /\ lookupRes' = Nil
    /\ parseArgs' = <<>> /\ parseRet' = NoParse
    /\ UNCHANGED <<contexts, loadVars, extVars>>

\* r.Parse(args)
DoParse(args) ==
    /\ op' = "Parse"
    /\ parseArgs' = args
    /\ parseRet' \in Parse(contexts, args)
    /\ regArg' = Nil /\ regErr' = NoError /\ lookupPath' = <<>> /\ lookupRes' = Nil
    /\ allRes' = <<>>
    /\ UNCHANGED <<contexts, loadVars, extVars>>

----------------------------------------------------------------------------
(* The wire document.  PluginContext and Flag carry no json tags, so        *)
(* encoding/json writes every field under its Go name: a rune as its code  *)
(* point, a nil map as null, and a map[rune]*PluginContext as an object    *)
(* keyed by the code points.                                               *)

Alphabet == <<"A","B","C","D","E","F","G","H","I","J","K","L","M",
              "N","O","P","Q","R","S","T","U","V","W","X","Y","Z">>
LowerAlphabet == <<"a","b","c","d","e","f","g","h","i","j","k","l","m",
                   "n","o","p","q","r","s","t","u","v","w","x","y","z">>

\* the code point of a rune
RuneCode(ch) ==
    IF ch = NUL THEN 0
    ELSE IF ch = "1" THEN 49
    ELSE IF \E k \in 1..26 : Alphabet[k] = ch
    THEN 64 + (CHOOSE k \in 1..26 : Alphabet[k] = ch)
    ELSE 96 + (CHOOSE k \in 1..26 : LowerAlphabet[k] = ch)

\* the rune of a code point
CodeRune(n) ==
    IF n = 0 THEN NUL
    ELSE IF n = 49 THEN "1"
    ELSE IF n \in 65..90 THEN Alphabet[n - 64]
    ELSE LowerAlphabet[n - 96]

\* a byte that is not part of any UTF-8 encoding, and U+FFFD
BadByte == "\\xff"
ReplacementChar == "\\ufffd"

\* A Go string as a JSON string: encoding/json coerces it to valid UTF-8,
\* writing U+FFFD for every invalid byte; every escape it writes is undone
\* when the string is read back.
JsonString(s) ==
    [k \in 1..Len(s) |-> IF s[k] = BadByte THEN ReplacementChar ELSE s[k]]

MarshalFlag(f) ==
    [Short |-> RuneCode(f.Short), Long |-> JsonString(f.Long),
     ArgName |-> JsonString(f.ArgName), Description |-> JsonString(f.Description)]

UnmarshalFlag(w) ==
    [Short |-> CodeRune(w.Short), Long |-> w.Long, ArgName |-> w.ArgName,
     Description |-> w.Description]

\* json.Marshal(ctx)
RECURSIVE Marshal(_)
Marshal(ctx) ==
    [Context |-> RuneCode(ctx.Context), ContextLong |-> JsonString(ctx.ContextLong),
     Description |-> JsonString(ctx.Description), Script |-> JsonString(ctx.Script),
     Flags |-> [k \in 1..Len(ctx.Flags) |-> MarshalFlag(ctx.Flags[k])],
     SubNull |-> ctx.SubNil,
     SubContexts |-> [c \in { RuneCode(l) : l \in DOMAIN ctx.SubContexts } |->
                        Marshal(ctx.SubContexts[CodeRune(c)])]]

\* json.Unmarshal of a well-formed document into a PluginContext
RECURSIVE UnmarshalDoc(_)
UnmarshalDoc(w) ==
    [Context |-> CodeRune(w.Context), ContextLong |-> w.ContextLong,
     Description |-> w.Description, Script |-> w.Script,
     Flags |-> [k \in 1..Len(w.Flags) |-> UnmarshalFlag(w.Flags[k])],
     SubNil |-> w.SubNull,
     SubContexts |-> [l \in { CodeRune(c) : c \in DOMAIN w.SubContexts } |->
                        UnmarshalDoc(w.SubContexts[RuneCode(l)])]]

\* what a child wrote to its standard output: one JSON document, or other text
JsonOut(doc) == [json |-> TRUE, doc |-> <<doc>>]
OtherOut     == [json |-> FALSE, doc |-> <<>>]

\* json.Unmarshal(stdout.Bytes(), &ctx): the context, and whether it failed
Unmarshal(stdout) ==
    IF stdout.json
    THEN [ctx |-> Ptr(UnmarshalDoc(stdout.doc[1])), failed |-> FALSE]
    ELSE [ctx |-> Nil, failed |-> TRUE]

----------------------------------------------------------------------------
(* Plugin discovery and bootstrap: FindPluginScripts, LoadPlugins and      *)
(* executePlugin.                                                          *)

MaxEntries == 3     \* most entries in the plugin directory

sDemo    == <<"d","e","m","o">>
sMessage == <<"m","e","s","s","a","g","e">>
sMsg     == <<"m","s","g">>
sVerbose == <<"v","e","r","b","o","s","e">>

\* what the demo plugin registers: -D/--demo with -m/--message <msg>, -v/--verbose
DemoNode ==
    MkNode("D", sDemo, Text("Demo plugin for testing"), Text("./plugins/demo.sh"),
           << MkFlag("m", sMessage, sMsg), MkFlag("v", sVerbose, <<>>) >>,
           EmptyMap)

\* A directory entry.  behaviour tells what the file does when it is run:
\*   "ok"    exits 0 within the timeout, having written the document out
\*   "other" exits 0 within the timeout, having written something else
\*   "fail"  exits non-zero within the timeout
\*   "slow"  does not exit within the timeout
\* args.sh and shell.sh emit documents that claim the letters of the
\* built-in contexts, shell.sh with the empty script path of a built-in.
Entry(name, isDir, hidden, executable, behaviour, out) ==
    [name |-> name, isDir |-> isDir, hidden |-> hidden, executable |-> executable,
     behaviour |-> behaviour, out |-> out]

\* the entries a plugin directory is made of, in the order of os.ReadDir
\* (sorted by file name)
DirPool ==
    << Entry(".hidden", FALSE, TRUE,  TRUE,  "ok",    JsonOut(Marshal(OtherNode))),
       Entry("args.sh", FALSE, FALSE, TRUE,  "ok",
             JsonOut(Marshal(MkNode("A", sArgs, Text("Not the built-in"),
                                    Text("./plugins/args.sh"),
                                    << MkFlag("x", sVerbose, <<>>) >>, EmptyMap)))),
       Entry("bad.sh",  FALSE, FALSE, TRUE,  "other", OtherOut),
       Entry("demo.sh", FALSE, FALSE, TRUE,  "ok",    JsonOut(Marshal(DemoNode))),
       Entry("fail.sh", FALSE, FALSE, TRUE,  "fail",  OtherOut),
       Entry("notes",   FALSE, FALSE, FALSE, "ok",    JsonOut(Marshal(OtherNode))),
       Entry("shell.sh", FALSE, FALSE, TRUE, "ok",
             JsonOut(Marshal(MkNode("S", sShell, Text("Not the built-in"), Text(""),
                                    << MkFlag("x", sVerbose, <<>>) >>, EmptyMap)))),
       Entry("slow.sh", FALSE, FALSE, TRUE,  "slow",  OtherOut),
       Entry("sub",     TRUE,  FALSE, TRUE,  "ok",    OtherOut),
       Entry("test.sh", FALSE, FALSE, TRUE,  "ok",    JsonOut(Marshal(TestNode))),
       Entry("time.sh", FALSE, FALSE, TRUE,  "ok",    JsonOut(Marshal(TimeNode))) >>

\* the entries of DirPool with index in idx, in order
RECURSIVE PickEntries(_, _)
PickEntries(idx, k) ==
    IF k > Len(DirPool) THEN <<>>
    ELSE (IF k \in idx THEN << DirPool[k] >> ELSE <<>>) \o PickEntries(idx, k + 1)

\* the plugin directory: missing, not a directory, or a directory with entries
Dirs ==
    { [state |-> "missing", entries |-> <<>>], [state |-> "file", entries |-> <<>>] }
    \cup { [state |-> "dir", entries |-> PickEntries(idx, 1)] :
             idx \in { x \in SUBSET (1..Len(DirPool)) : Cardinality(x) <= MaxEntries } }

\* the loop of FindPluginScripts over the entries, from the k-th
RECURSIVE ScanEntries(_, _)
ScanEntries(entries, k) ==
    IF k > Len(entries) THEN <<>>
    ELSE IF entries[k].isDir \/ entries[k].hidden THEN ScanEntries(entries, k + 1)
    ELSE IF entries[k].executable THEN << entries[k] >> \o ScanEntries(entries, k + 1)
    ELSE ScanEntries(entries, k + 1)

\* A FindPluginScripts for which a missing directory is an error.
FindPluginScriptsStrict(dir) ==
    IF dir.state \in {"missing", "file"} THEN [scripts |-> <<>>, failed |-> TRUE]
    ELSE [scripts |-> ScanEntries(dir.entries, 1), failed |-> FALSE]

\* FindPluginScripts(dir): the scripts, and whether it returned an error
FindPluginScripts(dir) ==
    IF dir.state = "missing" THEN [scripts |-> <<>>, failed |-> FALSE]
    ELSE IF dir.state = "file" THEN [scripts |-> <<>>, failed |-> TRUE]
    ELSE [scripts |-> ScanEntries(dir.entries, 1), failed |-> FALSE]

LoadError(script, kind) == << [script |-> script, kind |-> kind] >>

Workers == 1..Len(scripts)

\* LoadPlugins up to wg.Wait(): find the scripts and start one worker each.
\* Every worker is in executePlugin, its runner goroutine spawned, at select.
LoadStart(dir) ==
    LET found == FindPluginScripts(dir)
    IN  /\ lpc = "idle"
        /\ IF found.failed
           THEN /\ lpc' = "done"
                /\ loadRet' = LoadError("", "find")
                /\ scripts' = <<>>
           ELSE IF Len(found.scripts) = 0
           THEN /\ lpc' = "done"
                /\ loadRet' = NoError
                /\ scripts' = <<>>
           ELSE /\ lpc' = "wait"
                /\ loadRet' = NoError
                /\ scripts' = found.scripts
        /\ wpc' = [w \in 1..Len(scripts') |-> "select"]
        /\ child' = [w \in 1..Len(scripts') |-> "unstarted"]
        /\ doneChan' = [w \in 1..Len(scripts') |-> <<>>]
        /\ killed' = [w \in 1..Len(scripts') |-> FALSE]
        /\ ctxChan' = <<>> /\ errChan' = <<>>
        /\ UNCHANGED <<extVars, contexts, regVars>>

\* the runner goroutine of worker w: cmd.Run() starts the child
RunnerStart(w) ==
    /\ child[w] = "unstarted"
    /\ child' = [child EXCEPT ![w] = "running"]
    /\ UNCHANGED <<extVars, contexts, regVars, scripts, lpc, wpc, doneChan, ctxChan, errChan,
                   killed, loadRet>>

\* the child of worker w exits and cmd.Run() returns: "done <- cmd.Run()".
\* A slow child exits only after the timeout has expired.
RunnerReturn(w) ==
    /\ \/ child[w] = "running" /\ scripts[w].behaviour # "slow"
       \/ child[w] = "running" /\ scripts[w].behaviour = "slow" /\ wpc[w] = "done"
       \/ child[w] = "killed"
    /\ child' = [child EXCEPT ![w] = "exited"]
    /\ doneChan' = [doneChan EXCEPT ![w] =
                      << IF child[w] = "killed" \/ scripts[w].behaviour = "fail"
                         THEN "error" ELSE "nil" >>]
    /\ UNCHANGED <<extVars, contexts, regVars, scripts, lpc, wpc, ctxChan, errChan, killed, loadRet>>

\* worker w, "case err := <-done": the child has exited before the timeout
WorkerDone(w) ==
    /\ wpc[w] = "select"
    /\ doneChan[w] # <<>>
    /\ doneChan' = [doneChan EXCEPT ![w] = <<>>]
    /\ wpc' = [wpc EXCEPT ![w] = "done"]
    /\ IF doneChan[w][1] = "error"
       THEN /\ errChan' = errChan \o LoadError(scripts[w].name, "failed")
            /\ UNCHANGED ctxChan
       ELSE LET u == Unmarshal(scripts[w].out)
            IN  IF u.failed
                THEN /\ errChan' = errChan \o LoadError(scripts[w].name, "parse")
                     /\ UNCHANGED ctxChan
                ELSE /\ ctxChan' = ctxChan \o u.ctx
                     /\ UNCHANGED errChan
    /\ UNCHANGED <<extVars, contexts, regVars, scripts, lpc, child, killed, loadRet>>

\* what the unsynchronised read of cmd.Process can see: the field is written
\* by the runner goroutine when it starts the child
ProcessSeen(c) == IF c = "unstarted" THEN {FALSE} ELSE {TRUE, FALSE}

\* worker w, "case <-time.After(timeout)": the child has not exited in time
WorkerTimeout(w) ==
    /\ wpc[w] = "select"
    /\ doneChan[w] = <<>>
    /\ scripts[w].behaviour = "slow"
    /\ \E seen \in ProcessSeen(child[w]) :
         IF seen
         THEN /\ killed' = [killed EXCEPT ![w] = TRUE]
              /\ child' = [child EXCEPT ![w] = "killed"]
         ELSE UNCHANGED <<killed, child>>
    /\ errChan' = errChan \o LoadError(scripts[w].name, "timeout")
    /\ wpc' = [wpc EXCEPT ![w] = "done"]
    /\ UNCHANGED <<extVars, contexts, regVars, scripts, lpc, doneChan, ctxChan, loadRet>>

\* "for ctx := range ctxChan { registry.Register(ctx) }" from the k-th context
RECURSIVE RegisterAll(_, _, _)
RegisterAll(m, chan, k) ==
    IF k > Len(chan) THEN m
    ELSE RegisterAll(RegisterOp(m, chan[k]).contexts, chan, k + 1)

\* A LoadPlugins that registers nothing when a worker has failed.
LoadFinishAbort ==
    /\ lpc = "wait"
    /\ \A w \in Workers : wpc[w] = "done"
    /\ contexts' = IF Len(errChan) > 0 THEN contexts
                   ELSE RegisterAll(contexts, ctxChan, 1)
    /\ loadRet' = IF Len(errChan) > 0 THEN << errChan[1] >> ELSE NoError
    /\ lpc' = "done"
    /\ UNCHANGED <<extVars, regVars, scripts, wpc, child, doneChan, ctxChan, errChan, killed>>

\* A LoadPlugins that does not wait for its workers.
LoadFinishEarly ==
    /\ lpc = "wait"
    /\ contexts' = RegisterAll(contexts, ctxChan, 1)
    /\ loadRet' = IF Len(errChan) > 0 THEN << errChan[1] >> ELSE NoError
    /\ lpc' = "done"
    /\ UNCHANGED <<extVars, regVars, scripts, wpc, child, doneChan, ctxChan, errChan, killed>>

\* LoadPlugins from wg.Wait() to its return: every worker is done; register
\* the collected contexts, collect the errors, return the first one
LoadFinish ==
    /\ lpc = "wait"
    /\ \A w \in Workers : wpc[w] = "done"
    /\ contexts' = RegisterAll(contexts, ctxChan, 1)
    /\ loadRet' = IF Len(errChan) > 0 THEN << errChan[1] >> ELSE NoError
    /\ lpc' = "done"
    /\ UNCHANGED <<extVars, regVars, scripts, wpc, child, doneChan, ctxChan, errChan, killed>>

----------------------------------------------------------------------------
(* The registration sub-command: HandleArgs, handleRegister and the        *)
(* parser of plugin definitions (args.go).                                 *)

MaxItems == 2       \* most flag or sub-context definitions after a header

LowerRunes == { LowerAlphabet[k] : k \in 1..26 }

\* strings.ToUpper(s)[0] and strings.ToLower(string(ch)) on ASCII text
UpperOf(ch) ==
    IF ch \in LowerRunes
    THEN Alphabet[CHOOSE k \in 1..26 : LowerAlphabet[k] = ch] ELSE ch
LowerOf(ch) ==
    IF ch \in UpperRunes
    THEN LowerAlphabet[CHOOSE k \in 1..26 : Alphabet[k] = ch] ELSE ch

DefError(msg) == << [msg |-> msg] >>

\* strings.HasPrefix(arg, "-") && len(arg) == 2, with arg[1] in the set
IsShortToken(arg, letters) ==
    HasPrefix(arg, <<"-">>) /\ Len(arg) = 2 /\ arg[2] \in letters

\* the loop counting remainingArgs in parseFlag: the tokens from the 0-based
\* index i on, up to the first that starts with "-"
RECURSIVE RemainingArgs(_, _)
RemainingArgs(args, i) ==
    IF i < Len(args) /\ ~HasPrefix(args[i + 1], <<"-">>)
    THEN 1 + RemainingArgs(args, i + 1) ELSE 0

FlagFailure(msg) ==
    [flag |-> [Short |-> NUL, Long |-> <<>>, ArgName |-> <<>>, Description |-> <<>>],
     consumed |-> 0, err |-> DefError(msg)]

\* parseFlag counting every token that is left, the flag tokens included
parseFlagCountsAll(args) ==
    IF Len(args) < 2 THEN FlagFailure("flag needs at least description")
    ELSE
    LET hasShort == IsShortToken(args[1], LowerRunes)
        short == IF hasShort THEN args[1][2] ELSE NUL
        c1 == IF hasShort THEN 1 ELSE 0
        hasLong == c1 < Len(args) /\ HasPrefix(args[c1 + 1], <<"-", "-">>)
        long == IF hasLong THEN DropFirst(args[c1 + 1], 2) ELSE <<>>
        c2 == IF hasLong THEN c1 + 1 ELSE c1
        remainingArgs == Len(args) - c2
    IN  IF short = NUL /\ long = <<>>
        THEN FlagFailure("flag must have at least short or long name")
        ELSE IF remainingArgs >= 2
        THEN [flag |-> [Short |-> short, Long |-> long, ArgName |-> args[c2 + 1],
                        Description |-> args[c2 + 2]],
              consumed |-> c2 + 2, err |-> NoError]
        ELSE IF remainingArgs = 1
        THEN [flag |-> [Short |-> short, Long |-> long, ArgName |-> <<>>,
                        Description |-> args[c2 + 1]],
              consumed |-> c2 + 1, err |-> NoError]
        ELSE FlagFailure("flag missing description")

\* parseFlag taking a flag that has no description
parseFlagBareName(args) ==
    IF Len(args) < 2 THEN FlagFailure("flag needs at least description")
    ELSE
    LET hasShort == IsShortToken(args[1], LowerRunes)
        short == IF hasShort THEN args[1][2] ELSE NUL
        c1 == IF hasShort THEN 1 ELSE 0
        hasLong == c1 < Len(args) /\ HasPrefix(args[c1 + 1], <<"-", "-">>)
        long == IF hasLong THEN DropFirst(args[c1 + 1], 2) ELSE <<>>
        c2 == IF hasLong THEN c1 + 1 ELSE c1
        remainingArgs == RemainingArgs(args, c2)
    IN  IF short = NUL /\ long = <<>>
        THEN FlagFailure("flag must have at least short or long name")
        ELSE IF remainingArgs >= 2
        THEN [flag |-> [Short |-> short, Long |-> long, ArgName |-> args[c2 + 1],
                        Description |-> args[c2 + 2]],
              consumed |-> c2 + 2, err |-> NoError]
        ELSE IF remainingArgs = 1
        THEN [flag |-> [Short |-> short, Long |-> long, ArgName |-> <<>>,
                        Description |-> args[c2 + 1]],
              consumed |-> c2 + 1, err |-> NoError]
        ELSE [flag |-> [Short |-> short, Long |-> long, ArgName |-> <<>>,
                        Description |-> <<>>],
              consumed |-> c2, err |-> NoError]

\* parseFlag(args): the flag, the number of tokens consumed, the error
parseFlag(args) ==
    IF Len(args) < 2 THEN FlagFailure("flag needs at least description")
    ELSE
    LET hasShort == IsShortToken(args[1], LowerRunes)
        short == IF hasShort THEN args[1][2] ELSE NUL
        c1 == IF hasShort THEN 1 ELSE 0
        hasLong == c1 < Len(args) /\ HasPrefix(args[c1 + 1], <<"-", "-">>)
        long == IF hasLong THEN DropFirst(args[c1 + 1], 2) ELSE <<>>
        c2 == IF hasLong THEN c1 + 1 ELSE c1
        remainingArgs == RemainingArgs(args, c2)
    IN  IF short = NUL /\ long = <<>>
        THEN FlagFailure("flag must have at least short or long name")
        ELSE IF remainingArgs >= 2
        THEN [flag |-> [Short |-> short, Long |-> long, ArgName |-> args[c2 + 1],
                        Description |-> args[c2 + 2]],
              consumed |-> c2 + 2, err |-> NoError]
        ELSE IF remainingArgs = 1
        THEN [flag |-> [Short |-> short, Long |-> long, ArgName |-> <<>>,
                        Description |-> args[c2 + 1]],
              consumed |-> c2 + 1, err |-> NoError]
        ELSE FlagFailure("flag missing description")

\* the flag loop of parseSubContext from the 0-based index consumed on:
\* the flags, the tokens consumed, the error
RECURSIVE SubContextFlags(_, _, _)
\* the rest of one turn of that loop, f being what parseFlag returned
SubContextFlag(args, consumed, flags, f) ==
    IF f.err # NoError
    THEN [flags |-> <<>>, consumed |-> 0, err |-> f.err]
    ELSE SubContextFlags(args, consumed + f.consumed, Append(flags, f.flag))

SubContextFlags(args, consumed, flags) ==
    IF consumed >= Len(args) \/ IsShortToken(args[consumed + 1], UpperRunes)
    THEN [flags |-> flags, consumed |-> consumed, err |-> NoError]
    ELSE SubContextFlag(args, consumed, flags, parseFlag(DropFirst(args, consumed)))

\* the end of parseSubContext, fl being what its flag loop produced
SubContextOf(args, script, fl) ==
    IF fl.err # NoError
    THEN [ctx |-> Nil, consumed |-> 0, err |-> fl.err]
    ELSE [ctx |-> Ptr(MkLeaf(args[1][2], DropFirst(args[2], 2), args[3],
                             script, fl.flags)),
          consumed |-> fl.consumed, err |-> NoError]

\* parseSubContext(args): the node, the tokens consumed, the error
parseSubContext(args, script) ==
    IF Len(args) < 3
    THEN [ctx |-> Nil, consumed |-> 0,
          err |-> DefError("sub-context needs at least: -X --name description")]
    ELSE IF ~HasPrefix(args[2], <<"-", "-">>)
    THEN [ctx |-> Nil, consumed |-> 0,
          err |-> DefError("expected long flag for sub-context")]
    ELSE SubContextOf(args, script, SubContextFlags(args, 3, <<>>))

\* the loop of parseFlagsAndSubContexts from the 0-based index i on
RECURSIVE FlagsAndSubContextsFrom(_, _, _, _, _)
\* the rest of one turn of that loop, sc being what parseSubContext returned
AddSubContext(args, script, i, flags, subContexts, sc) ==
    IF sc.err # NoError
    THEN [flags |-> <<>>, subContexts |-> EmptyMap,
          err |-> DefError("error parsing sub-context: " \o sc.err[1].msg)]
    ELSE FlagsAndSubContextsFrom(args, script, i + sc.consumed, flags,
             MapPut(subContexts, Deref(sc.ctx).Context, Deref(sc.ctx)))

\* the rest of one turn of that loop, f being what parseFlag returned
AddFlag(args, script, i, flags, subContexts, f) ==
    IF f.err # NoError
    THEN [flags |-> <<>>, subContexts |-> EmptyMap,
          err |-> DefError("error parsing flag: " \o f.err[1].msg)]
    ELSE FlagsAndSubContextsFrom(args, script, i + f.consumed,
                                 Append(flags, f.flag), subContexts)

FlagsAndSubContextsFrom(args, script, i, flags, subContexts) ==
    IF i >= Len(args)
    THEN [flags |-> flags, subContexts |-> subContexts, err |-> NoError]
    ELSE IF IsShortToken(args[i + 1], UpperRunes)
    THEN AddSubContext(args, script, i, flags, subContexts,
                       parseSubContext(DropFirst(args, i), script))
    ELSE AddFlag(args, script, i, flags, subContexts, parseFlag(DropFirst(args, i)))

parseFlagsAndSubContexts(args, script) ==
    FlagsAndSubContextsFrom(args, script, 0, <<>>, EmptyMap)

\* the header with the first character of the long name taken as it is written
DefinitionHeaderAsWritten(args) ==
    IF HasPrefix(args[1], <<"-", "-">>)
    THEN LET contextLong == DropFirst(args[1], 2)
         IN  [err |-> NoError,
              contextShort |-> IF Len(contextLong) > 0
                               THEN contextLong[1] ELSE NUL,
              contextLong |-> contextLong, description |-> args[2], flagsStart |-> 2]
    ELSE IF HasPrefix(args[1], <<"-">>) /\ Len(args[1]) = 2
    THEN IF args[1][2] \notin UpperRunes
         THEN [err |-> DefError("context short flag must be a capital letter")]
         ELSE IF HasPrefix(args[2], <<"-", "-">>)
         THEN IF Len(args) < 3
              THEN [err |-> DefError("missing description")]
              ELSE [err |-> NoError, contextShort |-> args[1][2],
                    contextLong |-> DropFirst(args[2], 2), description |-> args[3],
                    flagsStart |-> 3]
         ELSE [err |-> NoError, contextShort |-> args[1][2],
               contextLong |-> << LowerOf(args[1][2]) >>, description |-> args[2],
               flagsStart |-> 2]
    ELSE [err |-> DefError("expected context flag (e.g., -T or --time)")]

\* the header of parsePluginDefinition: short, long, description, flagsStart
DefinitionHeader(args) ==
    IF HasPrefix(args[1], <<"-", "-">>)
    THEN LET contextLong == DropFirst(args[1], 2)
         IN  [err |-> NoError,
              contextShort |-> IF Len(contextLong) > 0
                               THEN UpperOf(contextLong[1]) ELSE NUL,
              contextLong |-> contextLong, description |-> args[2], flagsStart |-> 2]
    ELSE IF HasPrefix(args[1], <<"-">>) /\ Len(args[1]) = 2
    THEN IF args[1][2] \notin UpperRunes
         THEN [err |-> DefError("context short flag must be a capital letter")]
         ELSE IF HasPrefix(args[2], <<"-", "-">>)
         THEN IF Len(args) < 3
              THEN [err |-> DefError("missing description")]
              ELSE [err |-> NoError, contextShort |-> args[1][2],
                    contextLong |-> DropFirst(args[2], 2), description |-> args[3],
                    flagsStart |-> 3]
         ELSE [err |-> NoError, contextShort |-> args[1][2],
               contextLong |-> << LowerOf(args[1][2]) >>, description |-> args[2],
               flagsStart |-> 2]
    ELSE [err |-> DefError("expected context flag (e.g., -T or --time)")]

\* the end of parsePluginDefinition, h being the header and fs what
\* parseFlagsAndSubContexts returned
DefinitionOf(h, script, fs) ==
    IF fs.err # NoError THEN [ctx |-> Nil, err |-> fs.err]
    ELSE [ctx |-> Ptr(MkNode(h.contextShort, h.contextLong, h.description, script,
                             fs.flags, fs.subContexts)),
          err |-> NoError]

\* parsePluginDefinition after its header h
DefinitionBody(args, script, h) ==
    IF h.err # NoError THEN [ctx |-> Nil, err |-> h.err]
    ELSE IF h.contextShort = NUL /\ h.contextLong = <<>>
    THEN [ctx |-> Nil, err |-> DefError("must specify at least one of short or long")]
    ELSE DefinitionOf(h, script,
                      parseFlagsAndSubContexts(DropFirst(args, h.flagsStart), script))

\* parsePluginDefinition(args), with WSH_PLUGIN_SCRIPT = script: (ctx, err)
parsePluginDefinition(args, script) ==
    IF Len(args) < 2
    THEN [ctx |-> Nil, err |-> DefError("need at least: --name description")]
    ELSE DefinitionBody(args, script, DefinitionHeader(args))

NoOut == <<>>

\* handleRegister after parsePluginDefinition has returned d
RegisterDefinition(m, d) ==
    IF d.err # NoError
    THEN [exit |-> 1, out |-> NoOut, contexts |-> m, def |-> << d >>]
    ELSE [exit |-> 0, out |-> << JsonOut(Marshal(Deref(d.ctx))) >>,
          contexts |-> RegisterOp(m, Deref(d.ctx)).contexts, def |-> << d >>]

\* handleRegister(registry, args) on the registry m: exit code, output, registry
handleRegister(m, args, script) ==
    IF Len(args) < 3
    THEN [exit |-> 1, out |-> NoOut, contexts |-> m, def |-> Nil]
    ELSE RegisterDefinition(m, parsePluginDefinition(args, script))

\* what handleParse prints: one line per recorded flag, then WSH_ARGS
EnvOut(flags, rest) == [json |-> FALSE, doc |-> <<>>, env |-> flags, wshArgs |-> rest]

\* handleParse(registry, args) on the registry m, for what Parse returned
handleParse(m, ret) ==
    IF ret.err # NoError
    THEN [exit |-> 1, out |-> NoOut, contexts |-> m, def |-> Nil]
    ELSE LET result == Deref(ret.result)
         IN  [exit |-> 0,
              out |-> IF result.Flags = EmptyMap /\ Len(result.Args) = 0
                      THEN NoOut ELSE << EnvOut(result.Flags, result.Args) >>,
              contexts |-> m, def |-> Nil]

tRegister == <<"-","-">> \o sRegister

\* HandleArgs(registry, args) on the registry m: the outcomes it can have
HandleArgs(m, args, script) ==
    IF Len(args) = 0
    THEN { [exit |-> 1, out |-> NoOut, contexts |-> m, def |-> Nil] }
    ELSE IF args[1] = tRegister
    THEN { handleRegister(m, DropFirst(args, 1), script) }
    ELSE { handleParse(m, ret) : ret \in Parse(m, args) }

sDescription == <<"d","e","s","c">>
sBadDescription == <<"d", BadByte, "s","c">>
tLowerT   == <<"-","t">>
tNumber   == <<"-","-","1","a","b","c">>
to        == <<"-","o">>
tO        == <<"-","O">>
tOvertime == <<"-","-">> \o sOvertime

\* how a definition can begin
Headers ==
    { <<tT, tTime, sDescription>>, <<tTime, sDescription>>, <<tT, sDescription>>,
      <<tT, tTime>>, <<tLowerT, sDescription>>, <<tDashDash, sDescription>>,
      <<sDescription, sDescription>>, <<tT>>, <<tT, tTime, sBadDescription>>,
      <<tNumber, sDescription>> }

\* what can follow: definitions of flags and of sub-contexts, some malformed
Items ==
    { <<to, tOffline, sDescription>>, <<tf, tFrom, sDays, sDescription>>,
      <<to, sDescription>>, <<tFrom, sDays, sDescription>>, <<to>>,
      <<tO, tOvertime, sDescription>>, <<tO, sDescription>>,
      <<tO, tOvertime, sDescription, to, sDescription>>,
      <<tT, tOvertime, sBadDescription>> }

RECURSIVE Flatten(_, _)
Flatten(lists, k) ==
    IF k > Len(lists) THEN <<>> ELSE lists[k] \o Flatten(lists, k + 1)

\* the token lists given after --register
DefLists ==
    { h \o Flatten(items, 1) :
        h \in Headers, items \in UNION { [1..n -> Items] : n \in 0..MaxItems } }

\* the argument lists HandleArgs is called with
HandleArgsLists ==
    { <<>>, <<t5>>, <<tT>>, <<tOffline>>, << <<"-","-">> \o sHelp >> }
    \cup { <<tRegister>> \o d : d \in DefLists }

\* WSH_PLUGIN_SCRIPT: set by the plugin loader, unset otherwise
ScriptEnv == {Text("./plugins/demo.sh"), Text("")}

\* "wsh args ...": main makes a new registry and calls HandleArgs
DoHandleArgs(args, script) ==
    \E r \in HandleArgs(EmptyMap, args, script) :
        /\ hOp' = "HandleArgs"
        /\ hArgs' = args
        /\ hScript' = script
        /\ hDef' = r.def
        /\ hExit' = Ptr(r.exit)
        /\ hOut' = r.out
        /\ hReg' = r.contexts
        /\ UNCHANGED <<contexts, regVars, loadVars, mainVars, concVars, execVars, stepVars>>

\* parsePluginDefinition(args) on its own
DoParsePluginDefinition(args, script) ==
    /\ hOp' = "parsePluginDefinition"
    /\ hArgs' = args
    /\ hScript' = script
    /\ hDef' = << parsePluginDefinition(args, script) >>
    /\ hExit' = Nil /\ hOut' = NoOut /\ hReg' = EmptyMap
    /\ UNCHANGED <<contexts, regVars, loadVars, mainVars, concVars, execVars, stepVars>>

\* the token lists parseFlag is called with: what follows a header
FlagLists ==
    { Flatten(items, 1) : items \in UNION { [1..n -> Items] : n \in 0..MaxItems } }

\* parseFlag(args) on its own
DoParseFlag(args) ==
    /\ hOp' = "parseFlag"
    /\ hArgs' = args
    /\ hScript' = <<>>
    /\ hDef' = << parseFlag(args) >>
    /\ hExit' = Nil /\ hOut' = NoOut /\ hReg' = EmptyMap
    /\ UNCHANGED <<contexts, regVars, loadVars, mainVars, concVars, execVars, stepVars>>

ArgsInit ==
    /\ hOp = "idle" /\ hArgs = <<>> /\ hScript = <<>>
    /\ hDef = Nil /\ hExit = Nil /\ hOut = NoOut /\ hReg = EmptyMap

\* the process has exited, or the caller is done with the result
ArgsReturn ==
    /\ hOp # "idle"
    /\ hOp' = "idle" /\ hArgs' = <<>> /\ hScript' = <<>>
    /\ hDef' = Nil /\ hExit' = Nil /\ hOut' = NoOut /\ hReg' = EmptyMap
    /\ UNCHANGED <<contexts, regVars, loadVars, mainVars, concVars, execVars, stepVars>>

CallHandleArgs ==
    hOp = "idle" /\ \E args \in HandleArgsLists, script \in ScriptEnv :
                       DoHandleArgs(args, script)
CallParsePluginDefinition ==
    hOp = "idle" /\ \E args \in DefLists, script \in ScriptEnv :
                       DoParsePluginDefinition(args, script)
CallParseFlag == hOp = "idle" /\ \E args \in FlagLists : DoParseFlag(args)

----------------------------------------------------------------------------
(* main: the start of the process, from the registration of the built-in   *)
(* contexts to the hand-over to the shell or the exit.                     *)

tc     == <<"-","c">>
tS     == <<"-","S">>
tD     == <<"-","D">>
tEcho  == <<"e","c","h","o">>
tHelp  == <<"-","-">> \o sHelp

\* os.Args[1:] of a start of wsh other than "wsh args ..."
MainArgLists ==
    { <<>>, <<tc, tEcho>>, <<tS>>, <<tS, tc, tEcho>>, <<tHelp>>, <<tT>>,
      <<tT, tOffline>>, <<tD>>, <<t5>> }

MainIdle ==
    mpc = "start" /\ osArgs = <<>> /\ mainRet = NoParse /\ mainExit = Nil

NoPluginDir == [state |-> "missing", entries |-> <<>>]

\* RegisterShellPlugin and RegisterArgsPlugin on the new registry
MainRegisterBuiltIns ==
    /\ mpc = "start"
    /\ LET s == RegisterOp(contexts, ShellNode)
           a == RegisterOp(s.contexts, ArgsNode)
       IN  IF s.err # NoError \/ a.err # NoError
           THEN /\ mpc' = "exit" /\ mainExit' = Ptr(1)
                /\ contexts' = IF s.err # NoError THEN s.contexts ELSE a.contexts
           ELSE /\ mpc' = "registered" /\ UNCHANGED mainExit
                /\ contexts' = a.contexts
    /\ UNCHANGED <<osArgs, mainRet, pluginDir, regVars, loadVars, argsVars, concVars, execVars, stepVars>>

\* "if len(os.Args) == 1": no arguments, load the plugins and run the shell
MainNoArguments ==
    /\ mpc = "registered" /\ osArgs = <<>>
    /\ mpc' = "load"
    /\ UNCHANGED <<osArgs, mainRet, mainExit, pluginDir, contexts, regVars, loadVars,
                   argsVars, concVars, execVars, stepVars>>

\* where main goes after Parse has returned ret
AfterParse(ret) ==
    IF ret.err # NoError THEN [mpc |-> "exit", exit |-> Ptr(1)]
    ELSE IF Deref(ret.result).ShowHelp THEN [mpc |-> "exit", exit |-> Ptr(0)]
    ELSE IF Deref(ret.result).Context = Nil
            \/ Deref(Deref(ret.result).Context).Context = "S"
    THEN [mpc |-> "load", exit |-> Nil]
    ELSE [mpc |-> "exit", exit |-> Ptr(1)]

\* "result, err := shell.PluginRegistry.Parse(os.Args[1:])" and the
\* decisions main takes on it
MainParse ==
    /\ mpc = "registered" /\ osArgs # <<>>
    /\ \E ret \in Parse(contexts, osArgs) :
         /\ mainRet' = ret
         /\ mpc' = AfterParse(ret).mpc
         /\ mainExit' = AfterParse(ret).exit
    /\ UNCHANGED <<osArgs, pluginDir, contexts, regVars, loadVars, argsVars, concVars, execVars, stepVars>>

\* loadExternalPlugins: main calls LoadPlugins
MainLoadPlugins ==
    /\ mpc = "load"
    /\ LoadStart(pluginDir)

\* LoadPlugins has returned; main hands over to shell.Run
MainRunShell ==
    /\ mpc = "load" /\ lpc = "done"
    /\ mpc' = "shell"
    /\ UNCHANGED <<osArgs, mainRet, mainExit, pluginDir, contexts, regVars, loadVars,
                   argsVars, concVars, execVars, stepVars>>


----------------------------------------------------------------------------
(* Concurrent callers of one registry: Register, Lookup and GetAllContexts *)
(* step by step, with the registry's sync.RWMutex.                         *)

MaxCallers == 3     \* goroutines calling the registry at the same time

Callers == 1..MaxCallers

RegisterCall(ctx) == [name |-> "Register", ctx |-> ctx, path |-> <<>>]
LookupCall(path) == [name |-> "Lookup", ctx |-> TimeNode, path |-> path]
GetAllContextsCall == [name |-> "GetAllContexts", ctx |-> TimeNode, path |-> <<>>]

\* the calls the goroutines make
CallPool ==
    { RegisterCall(TimeNode), RegisterCall(TestNode), RegisterCall(OtherNode),
      LookupCall(<<"T">>), GetAllContextsCall }

Unlocked == [writer |-> 0, readers |-> {}]

ConcIdle ==
    /\ mu = Unlocked /\ cpc = <<>> /\ ccall = <<>> /\ cret = <<>> /\ cseen = <<>>
    /\ mapBusy = FALSE /\ torn = FALSE

\* what a goroutine has when it reads the map while another writes it
TornIf(reading) == torn \/ (reading /\ mapBusy)

\* A Register that does not take the lock.
RegisterNoLock(t) ==
    /\ cpc[t] = "start" /\ ccall[t].name = "Register"
    /\ mu' = [mu EXCEPT !.writer = t]
    /\ cpc' = [cpc EXCEPT ![t] = "locked"]
    /\ UNCHANGED <<contexts, ccall, cret, cseen, mapBusy, torn, regVars, loadVars,
                   argsVars, mainVars, execVars, stepVars>>

\* Register: r.mu.Lock()
RegisterLock(t) ==
    /\ cpc[t] = "start" /\ ccall[t].name = "Register"
    /\ mu.writer = 0 /\ mu.readers = {}
    /\ mu' = [mu EXCEPT !.writer = t]
    /\ cpc' = [cpc EXCEPT ![t] = "locked"]
    /\ UNCHANGED <<contexts, ccall, cret, cseen, mapBusy, torn, regVars, loadVars,
                   argsVars, mainVars, execVars, stepVars>>

\* Register: "if existing, exists := r.contexts[ctx.Context]; exists" and the
\* two returns inside; when the letter is free the write of the map begins
RegisterCheck(t) ==
    LET ctx == ccall[t].ctx
    IN  /\ cpc[t] = "locked"
        /\ torn' = TornIf(TRUE)
        /\ IF ctx.Context \in DOMAIN contexts
           THEN /\ cret' = [cret EXCEPT ![t] =
                              IF contexts[ctx.Context].Script = ctx.Script
                              THEN << NoError >>
                              ELSE << ConflictError(ctx.Context,
                                                    contexts[ctx.Context].Script,
                                                    ctx.Script) >>]
                /\ cpc' = [cpc EXCEPT ![t] = "unlock"]
                /\ UNCHANGED mapBusy
           ELSE /\ mapBusy' = TRUE
                /\ cpc' = [cpc EXCEPT ![t] = "write"]
                /\ UNCHANGED cret
        /\ UNCHANGED <<contexts, mu, ccall, cseen, regVars, loadVars, argsVars, mainVars, execVars, stepVars>>

\* Register: "r.contexts[ctx.Context] = ctx" is complete; return nil
RegisterWrite(t) ==
    /\ cpc[t] = "write"
    /\ contexts' = MapPut(contexts, ccall[t].ctx.Context, ccall[t].ctx)
    /\ mapBusy' = FALSE
    /\ cret' = [cret EXCEPT ![t] = << NoError >>]
    /\ cpc' = [cpc EXCEPT ![t] = "unlock"]
    /\ UNCHANGED <<mu, ccall, cseen, torn, regVars, loadVars, argsVars, mainVars, execVars, stepVars>>

\* Register: the deferred r.mu.Unlock()
RegisterUnlock(t) ==
    /\ cpc[t] = "unlock"
    /\ mu' = [mu EXCEPT !.writer = IF mu.writer = t THEN 0 ELSE mu.writer]
    /\ cpc' = [cpc EXCEPT ![t] = "done"]
    /\ UNCHANGED <<contexts, ccall, cret, cseen, mapBusy, torn, regVars, loadVars,
                   argsVars, mainVars, execVars, stepVars>>

\* Lookup and GetAllContexts: r.mu.RLock()
ReadLock(t) ==
    /\ cpc[t] = "start" /\ ccall[t].name \in {"Lookup", "GetAllContexts"}
    /\ mu.writer = 0
    /\ mu' = [mu EXCEPT !.readers = mu.readers \cup {t}]
    /\ cpc' = [cpc EXCEPT ![t] = IF ccall[t].name = "Lookup" THEN "read" ELSE "range"]
    /\ UNCHANGED <<contexts, ccall, cret, cseen, mapBusy, torn, regVars, loadVars,
                   argsVars, mainVars, execVars, stepVars>>

\* Lookup: the walk from r.contexts[contextPath[0]] down the path
LookupRead(t) ==
    /\ cpc[t] = "read"
    /\ torn' = TornIf(TRUE)
    /\ cret' = [cret EXCEPT ![t] = << Lookup(contexts, ccall[t].path) >>]
    /\ cpc' = [cpc EXCEPT ![t] = "runlock"]
    /\ UNCHANGED <<contexts, mu, ccall, cseen, mapBusy, regVars, loadVars, argsVars,
                   mainVars, execVars, stepVars>>

\* GetAllContexts: one turn of "for _, ctx := range r.contexts", or its end
GetAllContextsRange(t) ==
    /\ cpc[t] = "range"
    /\ torn' = TornIf(TRUE)
    /\ IF (DOMAIN contexts) \ cseen[t] = {}
       THEN /\ cpc' = [cpc EXCEPT ![t] = "runlock"]
            /\ UNCHANGED <<cret, cseen>>
       ELSE \E l \in (DOMAIN contexts) \ cseen[t] :
              /\ cret' = [cret EXCEPT ![t] = Append(cret[t], contexts[l])]
              /\ cseen' = [cseen EXCEPT ![t] = cseen[t] \cup {l}]
              /\ UNCHANGED cpc
    /\ UNCHANGED <<contexts, mu, ccall, mapBusy, regVars, loadVars, argsVars, mainVars, execVars, stepVars>>

\* Lookup and GetAllContexts: the deferred r.mu.RUnlock()
ReadUnlock(t) ==
    /\ cpc[t] = "runlock"
    /\ mu' = [mu EXCEPT !.readers = mu.readers \ {t}]
    /\ cpc' = [cpc EXCEPT ![t] = "done"]
    /\ UNCHANGED <<contexts, ccall, cret, cseen, mapBusy, torn, regVars, loadVars,
                   argsVars, mainVars, execVars, stepVars>>


----------------------------------------------------------------------------
(* ExecutePlugin: the dispatch of a resolved external context to its       *)
(* script.                                                                 *)

ExecInternalError == 1      \* ExecutePlugin's "return 1"

\* the exit codes a child process can exit with
ExitCodes == 0..255

\* what the child does once started: it exits with a code, or a signal ends it
ChildOutcomes == { [kind |-> "exit", code |-> n] : n \in ExitCodes }
                 \cup { [kind |-> "signal", code |-> 0] }

\* what is at the script's path: nothing, a file that cannot be executed,
\* an executable file
FileStates == {"missing", "plain", "executable"}

ExecNodes == {TimeNode, TestNode, DemoNode, ShellNode}

ExecFlags == { EmptyMap, [k \in {sOffline} |-> sTrue], [k \in {sFrom, sOffline} |->
                                                         IF k = sFrom THEN t5 ELSE sTrue] }

ExecArgs == { <<>>, <<t5>> }

\* ExecutePlugin(ctx, flags, args), with file at ctx.Script and a child that
\* does outcome: the process it launched (nil if none) and the code it returned
ExecutePlugin(ctx, flags, args, file, outcome) ==
    IF ctx.Script = <<>> THEN [launched |-> Nil, ret |-> ExecInternalError]
    ELSE IF file = "missing" THEN [launched |-> Nil, ret |-> ExecInternalError]
    ELSE IF file = "plain" THEN [launched |-> Nil, ret |-> 1]
    ELSE [launched |-> Ptr([path |-> ctx.Script, args |-> args, env |-> flags]),
          ret |-> IF outcome.kind = "exit" THEN outcome.code ELSE -1]

ExecIdle ==
    /\ exOp = "idle" /\ exCtx = Nil /\ exFile = "missing" /\ exChild = Nil
    /\ exLaunched = Nil /\ exRet = Nil

DoExecutePlugin(ctx, flags, args, file, outcome) ==
    LET r == ExecutePlugin(ctx, flags, args, file, outcome)
    IN  /\ exOp' = "ExecutePlugin"
        /\ exCtx' = Ptr(ctx)
        /\ exFile' = file
        /\ exLaunched' = r.launched
        /\ exChild' = IF r.launched = Nil THEN Nil ELSE Ptr(outcome)
        /\ exRet' = Ptr(r.ret)
        /\ UNCHANGED <<contexts, regVars, loadVars, argsVars, mainVars, concVars, stepVars>>

CallExecutePlugin ==
    /\ exOp = "idle"
    /\ \E ctx \in ExecNodes, flags \in ExecFlags, args \in ExecArgs,
          file \in FileStates, outcome \in ChildOutcomes :
         DoExecutePlugin(ctx, flags, args, file, outcome)

\* the caller is done with the code ExecutePlugin returned
ExecReturn ==
    /\ exOp # "idle"
    /\ exOp' = "idle" /\ exCtx' = Nil /\ exFile' = "missing" /\ exChild' = Nil
    /\ exLaunched' = Nil /\ exRet' = Nil
    /\ UNCHANGED <<contexts, regVars, loadVars, argsVars, mainVars, concVars, stepVars>>

----------------------------------------------------------------------------
(* Parse taken one pass of its loops at a time: the registry is fixed, and  *)
(* pps is the state of the loops of the call in progress.                  *)

MaxTokens == 3      \* longest argument list of a Parse that is stepped through

\* a root O (not the sub-context O of TimeNode) whose flag list holds
\* duplicates: two flags with the short name f, two with the long name
\* from, and a flag that claims the reserved names h and help
DupNode ==
    MkLeaf("O", sOther, Text("Other"), Text("./plugins/other.sh"),
           << MkFlag("f", sFrom, sDays), MkFlag("f", sVerbose, <<>>),
              MkFlag("o", sFrom, <<>>), MkFlag("h", sHelp, sDays) >>)

\* a root whose long name is the long name of a flag of TimeNode
FromNode ==
    MkLeaf("F", sFrom, Text("From"), Text("./plugins/from.sh"), <<>>)

\* the registries Parse is stepped through with: with and without the
\* built-in S
FullRegistry ==
    [l \in {"T", "S", "O", "F"} |->
        IF l = "T" THEN TimeNode ELSE IF l = "S" THEN ShellNode
        ELSE IF l = "O" THEN DupNode ELSE FromNode]

BareRegistry == [l \in {"T", "O"} |-> IF l = "T" THEN TimeNode ELSE DupNode]

ParseRegistries == {FullRegistry, BareRegistry}

tohf  == <<"-","o","h","f">>
tDash == <<"-">>

\* the tokens Parse is stepped through with
ParseVocab == {tT, tO, tTime, tOvertime, tFrom, tHelp, tf, tohf, tc, tDash, t5}

ParseArgLists == UNION { [1..n -> ParseVocab] : n \in 0..MaxTokens }

ParseIdle == pps = Nil

\* r.Parse(args) is called
ParseStart ==
    /\ op = "idle" /\ pps = Nil
    /\ \E args \in ParseArgLists :
         /\ parseArgs' = args
         /\ pps' = Ptr(ParseInit)
    /\ op' = "Parsing"
    /\ UNCHANGED <<contexts, regArg, regErr, lookupPath, lookupRes, allRes, parseRet,
                   loadVars, argsVars, mainVars, concVars, execVars>>

\* one pass of the body of a loop of Parse
ParseLoop ==
    /\ op = "Parsing" /\ Deref(pps).status = "run"
    /\ \E ps \in ParseStep(contexts, parseArgs, Deref(pps)) : pps' = Ptr(ps)
    /\ UNCHANGED <<contexts, regVars, loadVars, argsVars, mainVars, concVars, execVars>>

\* "return result, nil" or "return nil, fmt.Errorf(...)"
ParseFinish ==
    /\ op = "Parsing" /\ Deref(pps).status # "run"
    /\ op' = "Parse"
    /\ parseRet' = ParseReturn(Deref(pps))
    /\ UNCHANGED <<contexts, regArg, regErr, lookupPath, lookupRes, allRes, parseArgs, pps,
                   loadVars, argsVars, mainVars, concVars, execVars>>

\* the caller is done with what Parse returned
ParseDone ==
    /\ op = "Parse" /\ pps # Nil
    /\ op' = "idle" /\ pps' = Nil
    /\ parseArgs' = <<>> /\ parseRet' = NoParse
    /\ UNCHANGED <<contexts, regArg, regErr, lookupPath, lookupRes, allRes,
                   loadVars, argsVars, mainVars, concVars, execVars>>

ExtInit ==
    ArgsInit /\ MainIdle /\ pluginDir = NoPluginDir /\ ConcIdle /\ ExecIdle /\ ParseIdle

\* the caller is done with what the last call returned
Return ==
    /\ op # "idle"
    /\ op' = "idle"
    /\ regArg' = Nil /\ regErr' = NoError
    /\ lookupPath' = <<>> /\ lookupRes' = Nil /\ allRes' = <<>>
    /\ parseArgs' = <<>> /\ parseRet' = NoParse
    /\ UNCHANGED <<contexts, loadVars, extVars>>

\* NewPluginRegistry(); no call made, LoadPlugins not running
Init ==
    /\ contexts = EmptyMap
    /\ op = "idle"
    /\ regArg = Nil /\ regErr = NoError
    /\ lookupPath = <<>> /\ lookupRes = Nil /\ allRes = <<>>
    /\ parseArgs = <<>> /\ parseRet = NoParse
    /\ scripts = <<>> /\ lpc = "idle"
    /\ wpc = <<>> /\ child = <<>> /\ doneChan = <<>> /\ killed = <<>>
    /\ ctxChan = <<>> /\ errChan = <<>> /\ loadRet = NoError
    /\ ExtInit

\* a caller makes one call at a time
CallRegister == op = "idle" /\ \E ctx \in NodePool : Register(ctx)
CallLookup == op = "idle" /\ \E path \in Paths : DoLookup(path)
CallGetAllContexts == op = "idle" /\ DoGetAllContexts
CallParse == op = "idle" /\ \E args \in ArgLists : DoParse(args)

Next ==
    \/ CallRegister
    \/ CallLookup
    \/ CallGetAllContexts
    \/ CallParse
    \/ Return

Spec == Init /\ [][Next]_vars

\* the built-in contexts registered as main does, or a fresh registry
BuiltIns == [l \in {"S", "A"} |-> IF l = "S" THEN ShellNode ELSE ArgsNode]

InitLoad ==
    /\ contexts \in {EmptyMap, BuiltIns}
    /\ op = "idle"
    /\ regArg = Nil /\ regErr = NoError
    /\ lookupPath = <<>> /\ lookupRes = Nil /\ allRes = <<>>
    /\ parseArgs = <<>> /\ parseRet = NoParse
    /\ scripts = <<>> /\ lpc = "idle"
    /\ wpc = <<>> /\ child = <<>> /\ doneChan = <<>> /\ killed = <<>>
    /\ ctxChan = <<>> /\ errChan = <<>> /\ loadRet = NoError
    /\ ArgsInit /\ MainIdle /\ ConcIdle /\ ExecIdle /\ ParseIdle
    /\ pluginDir \in Dirs

CallLoadPlugins == LoadStart(pluginDir)
StepRunnerStart == \E w \in Workers : RunnerStart(w)
StepRunnerReturn == \E w \in Workers : RunnerReturn(w)
StepWorkerDone == \E w \in Workers : WorkerDone(w)
StepWorkerTimeout == \E w \in Workers : WorkerTimeout(w)

NextLoad ==
    \/ CallLoadPlugins
    \/ StepRunnerStart
    \/ StepRunnerReturn
    \/ StepWorkerDone
    \/ StepWorkerTimeout
    \/ LoadFinish

SpecLoad == InitLoad /\ [][NextLoad]_vars

\* a child that does not hang exits, and its cmd.Run() returns
RunnerExits == \E w \in Workers : scripts[w].behaviour # "slow" /\ RunnerReturn(w)

\* a step of a goroutine of LoadPlugins, of a child that exits, or of a timer
LoadProgress ==
    \/ StepRunnerStart
    \/ RunnerExits
    \/ StepWorkerDone
    \/ StepWorkerTimeout
    \/ LoadFinish

\* LoadPlugins with goroutines that are scheduled, children that exit unless
\* they are slow, and a timer that fires: a slow child may never exit
SpecLoadLive == SpecLoad /\ WF_vars(LoadProgress)

NextArgs ==
    \/ CallHandleArgs
    \/ CallParsePluginDefinition
    \/ CallParseFlag
    \/ ArgsReturn

SpecArgs == Init /\ [][NextArgs]_vars

\* a start of wsh: a new registry, a command line and a plugin directory
InitMain ==
    /\ contexts = EmptyMap
    /\ op = "idle"
    /\ regArg = Nil /\ regErr = NoError
    /\ lookupPath = <<>> /\ lookupRes = Nil /\ allRes = <<>>
    /\ parseArgs = <<>> /\ parseRet = NoParse
    /\ scripts = <<>> /\ lpc = "idle"
    /\ wpc = <<>> /\ child = <<>> /\ doneChan = <<>> /\ killed = <<>>
    /\ ctxChan = <<>> /\ errChan = <<>> /\ loadRet = NoError
    /\ ArgsInit
    /\ mpc = "start" /\ mainRet = NoParse /\ mainExit = Nil
    /\ osArgs \in MainArgLists
    /\ pluginDir \in Dirs
    /\ ConcIdle /\ ExecIdle /\ ParseIdle

NextMain ==
    \/ MainRegisterBuiltIns
    \/ MainNoArguments
    \/ MainParse
    \/ MainLoadPlugins
    \/ StepRunnerStart
    \/ StepRunnerReturn
    \/ StepWorkerDone
    \/ StepWorkerTimeout
    \/ LoadFinish
    \/ MainRunShell

SpecMain == InitMain /\ [][NextMain]_vars

\* a new registry and MaxCallers goroutines, each about to make one call
InitConc ==
    /\ contexts = EmptyMap
    /\ op = "idle"
    /\ regArg = Nil /\ regErr = NoError
    /\ lookupPath = <<>> /\ lookupRes = Nil /\ allRes = <<>>
    /\ parseArgs = <<>> /\ parseRet = NoParse
    /\ scripts = <<>> /\ lpc = "idle"
    /\ wpc = <<>> /\ child = <<>> /\ doneChan = <<>> /\ killed = <<>>
    /\ ctxChan = <<>> /\ errChan = <<>> /\ loadRet = NoError
    /\ ArgsInit /\ MainIdle /\ pluginDir = NoPluginDir /\ ExecIdle /\ ParseIdle
    /\ mu = Unlocked /\ mapBusy = FALSE /\ torn = FALSE
    /\ ccall \in [Callers -> CallPool]
    /\ cpc = [t \in Callers |-> "start"]
    /\ cret = [t \in Callers |-> <<>>]
    /\ cseen = [t \in Callers |-> {}]

StepRegisterLock == \E t \in Callers : RegisterLock(t)
StepRegisterCheck == \E t \in Callers : RegisterCheck(t)
StepRegisterWrite == \E t \in Callers : RegisterWrite(t)
StepRegisterUnlock == \E t \in Callers : RegisterUnlock(t)
StepReadLock == \E t \in Callers : ReadLock(t)
StepLookupRead == \E t \in Callers : LookupRead(t)
StepGetAllContextsRange == \E t \in Callers : GetAllContextsRange(t)
StepReadUnlock == \E t \in Callers : ReadUnlock(t)

NextConc ==
    \/ StepRegisterLock
    \/ StepRegisterCheck
    \/ StepRegisterWrite
    \/ StepRegisterUnlock
    \/ StepReadLock
    \/ StepLookupRead
    \/ StepGetAllContextsRange
    \/ StepReadUnlock

SpecConc == InitConc /\ [][NextConc]_vars

InitParse ==
    /\ contexts \in ParseRegistries
    /\ op = "idle" /\ regArg = Nil /\ regErr = NoError
    /\ lookupPath = <<>> /\ lookupRes = Nil /\ allRes = <<>>
    /\ parseArgs = <<>> /\ parseRet = NoParse
    /\ scripts = <<>> /\ lpc = "idle"
    /\ wpc = <<>> /\ child = <<>> /\ doneChan = <<>> /\ killed = <<>>
    /\ ctxChan = <<>> /\ errChan = <<>> /\ loadRet = NoError
    /\ ExtInit

NextParse ==
    \/ ParseStart
    \/ ParseLoop
    \/ ParseFinish
    \/ ParseDone

SpecParse == InitParse /\ [][NextParse]_vars

\* the loops of Parse run without suspension: a pass that can be taken is
\* taken, and a call that has finished returns
SpecParseLive == SpecParse /\ WF_vars(ParseLoop) /\ WF_vars(ParseFinish)

NextExec ==
    \/ CallExecutePlugin
    \/ ExecReturn

SpecExec == Init /\ [][NextExec]_vars

----------------------------------------------------------------------------
(* Properties of the registry (checked under Spec).                        *)

\* a step that makes a Register call; regArg' is its argument
RegisterStep == op = "idle" /\ op' = "Register"

\* C1: Register is idempotent on (letter, script).  A Register whose node
\* has the letter and the script of the root already bound to that letter
\* returns no error and leaves the registry as it was: one root for the
\* letter, and it is the node registered first, whatever the other fields of
\* the second node are.
C1_RegisterIdempotent ==
    [][ ( /\ RegisterStep
          /\ Deref(regArg').Context \in DOMAIN contexts
          /\ contexts[Deref(regArg').Context].Script = Deref(regArg').Script )
        => ( /\ regErr' = NoError
             /\ contexts' = contexts
             /\ \A all \in GetAllContextsOp(contexts') :
                  Cardinality({ k \in 1..Len(all) :
                                  all[k].Context = Deref(regArg').Context }) = 1 )
      ]_vars

\* TimeAltNode was registered over TimeNode (same letter, same script)
C1_Witness ==
    /\ op = "Register"
    /\ regArg = Ptr(TimeAltNode)
    /\ regErr = NoError
    /\ "T" \in DOMAIN contexts
    /\ contexts["T"] = TimeNode

\* C2: a Register whose letter is bound to a root with a different script
\* returns a conflict error naming both scripts and does not change the
\* registry: Lookup of the letter still returns the first registrant's node.
C2_RegisterConflict ==
    [][ ( /\ RegisterStep
          /\ Deref(regArg').Context \in DOMAIN contexts
          /\ contexts[Deref(regArg').Context].Script # Deref(regArg').Script )
        => ( /\ regErr' = ConflictError(Deref(regArg').Context,
                                        contexts[Deref(regArg').Context].Script,
                                        Deref(regArg').Script)
             /\ contexts' = contexts
             /\ Lookup(contexts', << Deref(regArg').Context >>)
                  = Ptr(contexts[Deref(regArg').Context]) )
      ]_vars

\* TestNode (test.sh) was refused the letter of TimeNode (time.sh)
C2_Witness ==
    /\ op = "Register"
    /\ regArg = Ptr(TestNode)
    /\ regErr # NoError
    /\ Lookup(contexts, <<"T">>) = Ptr(TimeNode)

\* C3: over any sequence of Register, Lookup, GetAllContexts and Parse calls
\* the bound root letters only grow and the node bound to a letter never
\* changes: no step removes or replaces a root.
C3_RootsOnlyGrow ==
    [][ \A l \in DOMAIN contexts :
          l \in DOMAIN contexts' /\ contexts'[l] = contexts[l] ]_vars

\* a Register was refused while several roots are bound
C3_Witness ==
    /\ op = "Register"
    /\ regErr # NoError
    /\ Cardinality(DOMAIN contexts) >= 3

\* the node a context path names: the root for a path of one letter, else
\* the child, under the path's last letter, of the node its front names
RECURSIVE ResolvedNode(_, _)
ResolvedNode(m, path) ==
    IF Len(path) = 0 THEN Nil
    ELSE IF Len(path) = 1
    THEN IF path[1] \in DOMAIN m THEN Ptr(m[path[1]]) ELSE Nil
    ELSE LET parent == ResolvedNode(m, SubSeq(path, 1, Len(path) - 1))
         IN  IF parent = Nil THEN Nil
             ELSE IF Deref(parent).SubNil THEN Nil
             ELSE IF path[Len(path)] \in DOMAIN Deref(parent).SubContexts
             THEN Ptr(Deref(parent).SubContexts[path[Len(path)]])
             ELSE Nil

\* C4: Lookup fails closed.  For the empty path, a path whose first letter is
\* no root, or a path with a later segment missing from the previous node's
\* sub-contexts (a nil map included), Lookup returns nil, never the node of
\* the prefix that resolves.
C4_LookupFailsClosed ==
    (op = "Lookup" /\ ResolvedNode(contexts, lookupPath) = Nil) => lookupRes = Nil

\* -TO was looked up where T has a nil sub-context map and O is a root
C4_Witness ==
    /\ op = "Lookup"
    /\ lookupPath = <<"T", "O">>
    /\ "T" \in DOMAIN contexts /\ contexts["T"].SubNil
    /\ "O" \in DOMAIN contexts
    /\ lookupRes = Nil

\* C5: for a path all of whose segments resolve, Lookup returns the node at
\* the last segment: Lookup(T,O) is T's child O with O's own flags, neither
\* a root O nor T.
C5_LookupReturnsTerminal ==
    /\ (op = "Lookup" /\ ResolvedNode(contexts, lookupPath) # Nil)
         => lookupRes = ResolvedNode(contexts, lookupPath)
    /\ ( /\ op = "Lookup"
         /\ lookupPath = <<"T", "O">>
         /\ "T" \in DOMAIN contexts /\ contexts["T"] = TimeNode )
         => ( /\ lookupRes = Ptr(OvertimeNode)
              /\ Deref(lookupRes).Flags = << MkFlag("s", sStart, sTime) >> )

\* -TO was looked up where T is TimeNode and a root O is registered too
C5_Witness ==
    /\ op = "Lookup"
    /\ lookupPath = <<"T", "O">>
    /\ "O" \in DOMAIN contexts
    /\ lookupRes = Ptr(OvertimeNode)


----------------------------------------------------------------------------
(* Properties of Parse (checked under Spec).                               *)

\* T is bound to TimeNode: long name time, -o/--offline boolean,
\* -f/--from <days>, sub-context O with -s/--start <time>
TimeRegistered == "T" \in DOMAIN contexts /\ contexts["T"] = TimeNode

\* what Parse returns on success
Success(path, ctx, flags, rest, help) ==
    [result |-> Ptr([ContextPath |-> path, Context |-> Ptr(ctx), Flags |-> flags,
                     Args |-> rest, ShowHelp |-> help]),
     err |-> NoError]

\* context T, {offline: "true", from: "5"}, no leftover
OfflineFrom5 ==
    Success(<<"T">>, TimeNode,
            [k \in {sOffline, sFrom} |-> IF k = sOffline THEN sTrue ELSE t5],
            <<>>, FALSE)

\* C6: parse equivalence.  Against a registry whose root T is TimeNode the
\* cluster form -Tof 5, the long form -T --offline --from 5, the all-long
\* form --time --offline --from 5 and the mixed form -T --offline -f 5 all
\* return the flag map {offline: "true", from: "5"}, no leftover and the
\* resolved context T.
C6_ParseEquivalence ==
    (op = "Parse" /\ TimeRegistered /\ parseArgs = <<tTof, t5>>)
      => ( /\ parseRet = OfflineFrom5
           /\ Parse(contexts, <<tTof, t5>>) = {OfflineFrom5}
           /\ Parse(contexts, <<tT, tOffline, tFrom, t5>>) = {OfflineFrom5}
           /\ Parse(contexts, <<tTime, tOffline, tFrom, t5>>) = {OfflineFrom5}
           /\ Parse(contexts, <<tT, tOffline, tf, t5>>) = {OfflineFrom5} )

\* -Tof 5 was parsed with T, O and the default context S registered
C6_Witness ==
    /\ op = "Parse"
    /\ parseArgs = <<tTof, t5>>
    /\ TimeRegistered
    /\ {"O", "S"} \subseteq DOMAIN contexts
    /\ parseRet = OfflineFrom5

\* control is at a lowercase character of a cluster that is a value-requiring
\* flag of the current context and is not the last character of the cluster
ValueFlagMidCluster(m, args, ps) ==
    /\ ps.status = "run"
    /\ ps.inCluster
    /\ ps.flagIdx < Len(args[ps.i + 1]) - 2
    /\ LET ch == args[ps.i + 1][ps.flagIdx + 2]
           flag == findFlagInContext(ch, DefaultToShell(m, ps).cur)
       IN  /\ ch # "h"
           /\ ch \notin UpperRunes
           /\ flag # Nil
           /\ Deref(flag).ArgName # <<>>

\* the character of the cluster that control is at
CharAt(args, ps) == args[ps.i + 1][ps.flagIdx + 2]

\* Parse returns the error and no result
Failure(kind, name) == [result |-> Nil, err |-> ParseError(kind, name)]

\* C7: a value-requiring flag followed by at least one more character in its
\* cluster makes Parse fail with the requires-an-argument error, whatever
\* tokens follow the cluster, and no value is recorded: no result is returned.
C7_ValueFlagMustEndCluster ==
    op = "Parse" =>
      \A ps \in ParseStates(contexts, parseArgs) :
        ValueFlagMidCluster(contexts, parseArgs, ps)
          => ( /\ \A n \in ParseStep(contexts, parseArgs, ps) :
                    /\ n.status = "err"
                    /\ ParseReturn(n)
                         = Failure("requires an argument", <<CharAt(parseArgs, ps)>>)
               /\ Parse(contexts, parseArgs) = {parseRet}
                    => parseRet
                         = Failure("requires an argument", <<CharAt(parseArgs, ps)>>) )

\* -T -fo 5 was parsed: the value 5 follows the cluster, and Parse failed
C7_Witness ==
    /\ op = "Parse"
    /\ parseArgs = <<tT, tfo, t5>>
    /\ TimeRegistered
    /\ parseRet = Failure("requires an argument", <<"f">>)

\* control is at an uppercase character of a cluster that is a sub-context
\* of the current context
AtSubContextLetter(args, ps) ==
    /\ ps.status = "run"
    /\ ps.inCluster
    /\ ps.flagIdx < Len(args[ps.i + 1]) - 1
    /\ CharAt(args, ps) \in UpperRunes
    /\ ps.cur # Nil
    /\ CharAt(args, ps) \in DOMAIN Deref(ps.cur).SubContexts

\* C8: an uppercase letter in a cluster is resolved as a sub-context of the
\* cursor before it is tried as a root.  With root T owning sub-context O,
\* -TOs 09:00 yields the path T,O, the resolved context T's child O, the
\* flags {start: "09:00"} and no leftover, also when a root O is registered.
C8_SubContextBeforeRoot ==
    /\ op = "Parse" =>
         \A ps \in ParseStates(contexts, parseArgs) :
           AtSubContextLetter(parseArgs, ps)
             => \A n \in ParseStep(contexts, parseArgs, ps) :
                  /\ n.cur = Ptr(Deref(ps.cur).SubContexts[CharAt(parseArgs, ps)])
                  /\ n.Context = n.cur
                  /\ n.ContextPath = Append(ps.ContextPath, CharAt(parseArgs, ps))
    /\ (op = "Parse" /\ TimeRegistered /\ parseArgs = <<tTOs, t0900>>)
         => parseRet = Success(<<"T", "O">>, OvertimeNode,
                               [k \in {sStart} |-> t0900], <<>>, FALSE)

\* -TOs 09:00 was parsed with a root O registered beside T
C8_Witness ==
    /\ op = "Parse"
    /\ parseArgs = <<tTOs, t0900>>
    /\ TimeRegistered
    /\ "O" \in DOMAIN contexts /\ contexts["O"] = OtherNode
    /\ parseRet.result # Nil
    /\ Deref(parseRet.result).ContextPath = <<"T", "O">>

\* control is at an uppercase character of a cluster that is neither a
\* sub-context of the current context nor a root
AtUnknownContext(m, args, ps) ==
    /\ ps.status = "run"
    /\ ps.inCluster
    /\ ps.flagIdx < Len(args[ps.i + 1]) - 1
    /\ CharAt(args, ps) \in UpperRunes
    /\ ~AtSubContextLetter(args, ps)
    /\ CharAt(args, ps) \notin DOMAIN m

\* control is at a lowercase character of a cluster, other than h, that is
\* no short flag of the current context
AtUnknownShortFlag(m, args, ps) ==
    /\ ps.status = "run"
    /\ ps.inCluster
    /\ ps.flagIdx < Len(args[ps.i + 1]) - 1
    /\ CharAt(args, ps) \notin UpperRunes \cup {"h"}
    /\ LET cur == DefaultToShell(m, ps).cur
       IN  cur = Nil \/ \A k \in 1..Len(Deref(cur).Flags) :
                          Deref(cur).Flags[k].Short # CharAt(args, ps)

\* control is at a --name token, other than --help, whose name is no long
\* flag of the current context and no long name of a sub-context or root
AtUnknownLongFlag(m, args, ps) ==
    /\ ps.status = "run"
    /\ ~ps.inCluster
    /\ ps.i < Len(args)
    /\ HasPrefix(args[ps.i + 1], <<"-", "-">>)
    /\ LET name == DropFirst(args[ps.i + 1], 2)
           cur  == DefaultToShell(m, ps).cur
       IN  /\ name # sHelp
           /\ cur # Nil => /\ \A k \in 1..Len(Deref(cur).Flags) :
                                Deref(cur).Flags[k].Long # name
                           /\ \A l \in DOMAIN Deref(cur).SubContexts :
                                Deref(cur).SubContexts[l].ContextLong # name
           /\ \A l \in DOMAIN m : m[l].ContextLong # name

\* control is at a value-requiring short flag that ends its cluster, and no
\* token follows the cluster
AtShortFlagWithoutValue(m, args, ps) ==
    /\ ps.status = "run"
    /\ ps.inCluster
    /\ ps.flagIdx = Len(args[ps.i + 1]) - 2
    /\ ps.i + 1 >= Len(args)
    /\ LET ch == CharAt(args, ps)
           flag == findFlagInContext(ch, DefaultToShell(m, ps).cur)
       IN  /\ ch \notin UpperRunes \cup {"h"}
           /\ flag # Nil
           /\ Deref(flag).ArgName # <<>>

\* C9: whenever Parse fails (an uppercase letter that is neither a
\* sub-context of the cursor nor a root, a lowercase letter or long name
\* that matches nothing registered, a missing flag argument) it returns an
\* error and no result at all, however many tokens were processed before.
C9_FailureReturnsNoResult ==
    op = "Parse" =>
      /\ parseRet.err # NoError => parseRet.result = Nil
      /\ parseRet.err = NoError => parseRet.result # Nil
      /\ \A ps \in ParseStates(contexts, parseArgs) :
           /\ ps.status = "err"
                => ps.err # NoError /\ ParseReturn(ps) = [result |-> Nil, err |-> ps.err]
           /\ AtUnknownContext(contexts, parseArgs, ps)
                => \A n \in ParseStep(contexts, parseArgs, ps) :
                     ParseReturn(n) = Failure("unknown context", <<CharAt(parseArgs, ps)>>)
           /\ AtUnknownShortFlag(contexts, parseArgs, ps)
                => \A n \in ParseStep(contexts, parseArgs, ps) :
                     ParseReturn(n) = Failure("unknown flag", <<CharAt(parseArgs, ps)>>)
           /\ AtUnknownLongFlag(contexts, parseArgs, ps)
                => \A n \in ParseStep(contexts, parseArgs, ps) :
                     ParseReturn(n) = Failure("unknown flag", parseArgs[ps.i + 1])
           /\ ( AtShortFlagWithoutValue(contexts, parseArgs, ps)
                \/ ValueFlagMidCluster(contexts, parseArgs, ps) )
                => \A n \in ParseStep(contexts, parseArgs, ps) :
                     ParseReturn(n)
                       = Failure("requires an argument", <<CharAt(parseArgs, ps)>>)

\* -Tof 5 -X was parsed: two flags were recorded before the unknown context
C9_Witness ==
    /\ op = "Parse"
    /\ parseArgs = <<tTof, t5, tX>>
    /\ TimeRegistered
    /\ parseRet = Failure("unknown context", <<"X">>)

----------------------------------------------------------------------------
(* Properties of the plugin bootstrap (checked under SpecLoad).            *)

\* the letter is held by the built-in context that was registered before
\* LoadPlugins was called
HeldByBuiltIn(letter) ==
    /\ letter \in DOMAIN BuiltIns /\ letter \in DOMAIN contexts
    /\ contexts[letter] = BuiltIns[letter]

\* the node a script's document describes
DocNode(w) == Deref(Unmarshal(scripts[w].out).ctx)

\* three scripts were discovered: one does not exit within the timeout, the
\* other two write valid documents for two different letters, neither the
\* letter of a built-in context that is registered
OneSlowOfThree ==
    /\ Len(scripts) = 3
    /\ Cardinality({ w \in Workers : scripts[w].behaviour = "slow" }) = 1
    /\ \A w \in Workers : scripts[w].behaviour \in {"slow", "ok"}
    /\ \A w \in Workers :
         scripts[w].behaviour = "ok" => ~HeldByBuiltIn(DocNode(w).Context)
    /\ \A v, w \in Workers :
         (v # w /\ scripts[v].behaviour = "ok" /\ scripts[w].behaviour = "ok")
           => DocNode(v).Context # DocNode(w).Context

\* the two fast plugins are registered, the slow one contributes exactly one
\* timeout error and no node, and no other worker's child is killed
IsolatedOutcome ==
    /\ Len(ctxChan) = 2
    /\ \A w \in Workers :
         IF scripts[w].behaviour = "slow"
         THEN /\ errChan = LoadError(scripts[w].name, "timeout")
              /\ loadRet = LoadError(scripts[w].name, "timeout")
         ELSE /\ ~killed[w]
              /\ \E k \in 1..Len(ctxChan) : ctxChan[k] = DocNode(w)
              /\ DocNode(w).Context \in DOMAIN contexts
              /\ contexts[DocNode(w).Context] = DocNode(w)

\* C10: timeout isolation.  When LoadPlugins runs over three discovered
\* plugins of which exactly one does not finish within the timeout and the
\* other two emit valid documents for distinct letters, the two others end
\* up registered, the slow plugin's child is killed and contributes exactly
\* one timeout error and no node, and no other worker is affected.
C10_TimeoutIsolation ==
    (lpc = "done" /\ OneSlowOfThree)
      => ( /\ IsolatedOutcome
           /\ \A w \in Workers : scripts[w].behaviour = "slow" => killed[w] )

\* what LoadPlugins does guarantee in that case: everything but the kill
C10_IsolationWithoutKill ==
    (lpc = "done" /\ OneSlowOfThree) => IsolatedOutcome

\* LoadPlugins has returned in that case, and the slow child was killed
C10_KilledReached ==
    /\ lpc = "done"
    /\ OneSlowOfThree
    /\ \E w \in Workers : killed[w]

----------------------------------------------------------------------------
(* Properties of the registration sub-command (checked under SpecArgs).    *)

\* parsePluginDefinition has just accepted hArgs
DefinitionAccepted ==
    hOp = "parsePluginDefinition" /\ hDef[1].err = NoError

\* what executePlugin reads back from the document handleRegister prints
ReadBack(node) == Unmarshal(JsonOut(Marshal(node)))

\* the same letter, long name, description, script, flags and sub-contexts
SameNode(a, b) ==
    /\ a.Context = b.Context
    /\ a.ContextLong = b.ContextLong
    /\ a.Description = b.Description
    /\ a.Script = b.Script
    /\ a.Flags = b.Flags
    /\ a.SubContexts = b.SubContexts

\* the tokens of hArgs hold no byte that is outside UTF-8
ValidText == \A k \in 1..Len(hArgs) : \A j \in 1..Len(hArgs[k]) : hArgs[k][j] # BadByte

\* C11: for every token sequence that parsePluginDefinition accepts, the
\* node read back from the node's wire document has the same letter, long
\* name, description, script, flags (in order) and sub-context mapping.
C11_RoundTrip ==
    DefinitionAccepted =>
        LET back == ReadBack(Deref(hDef[1].ctx))
        IN  ~back.failed /\ SameNode(Deref(back.ctx), Deref(hDef[1].ctx))

\* C11, for token sequences that are valid UTF-8: the round trip holds.
C11_RoundTripOfValidText ==
    (DefinitionAccepted /\ ValidText) =>
        LET back == ReadBack(Deref(hDef[1].ctx))
        IN  ~back.failed /\ SameNode(Deref(back.ctx), Deref(hDef[1].ctx))

\* an accepted definition with flags and a sub-context that has a flag
C11_Witness ==
    /\ DefinitionAccepted /\ ValidText
    /\ Len(Deref(hDef[1].ctx).Flags) > 0
    /\ \E l \in DOMAIN Deref(hDef[1].ctx).SubContexts :
          Len(Deref(hDef[1].ctx).SubContexts[l].Flags) > 0

\* "args --register <tokens>" has just returned, for tokens that
\* parsePluginDefinition accepts
RegisterOfAccepted ==
    /\ hOp = "HandleArgs" /\ Len(hArgs) > 0 /\ hArgs[1] = tRegister
    /\ parsePluginDefinition(DropFirst(hArgs, 1), hScript).err = NoError

\* the node is registered, its document is printed and the exit code is 0
RegisteredAndPrinted ==
    LET node == Deref(parsePluginDefinition(DropFirst(hArgs, 1), hScript).ctx)
    IN  /\ hExit = Ptr(0)
        /\ hOut = << JsonOut(Marshal(node)) >>
        /\ hReg = MapPut(EmptyMap, node.Context, node)

\* C17: for every token list that parsePluginDefinition accepts, the
\* two-token headers included, "args --register <tokens>" registers the
\* node, prints its document and returns exit code 0.
C17_RegisterAcceptsGrammar == RegisterOfAccepted => RegisteredAndPrinted

\* C17, for accepted lists of three tokens or more: it holds.
C17_RegisterAcceptsThreeTokens ==
    (RegisterOfAccepted /\ Len(hArgs) >= 4) => RegisteredAndPrinted

\* a list of three tokens or more has been registered and printed
C17_LongListRegistered ==
    RegisterOfAccepted /\ Len(hArgs) >= 4 /\ RegisteredAndPrinted

----------------------------------------------------------------------------
(* Properties of the start of the process (checked under SpecMain).        *)

\* main has parsed the command line
MainParsed == mainRet # NoParse

\* the plugin directory holds the demo plugin, which declares -D
DemoDiscovered ==
    \E k \in 1..Len(FindPluginScripts(pluginDir).scripts) :
        FindPluginScripts(pluginDir).scripts[k].name = "demo.sh"

\* C12: the built-in contexts are registered, then LoadPlugins runs to
\* completion, and only then is the command line parsed, so that the letter
\* a discovered plugin declares is resolved by Parse.
C12_StartupOrdering ==
    /\ MainParsed => (lpc = "done" /\ \A l \in DOMAIN BuiltIns : l \in DOMAIN contexts)
    /\ (MainParsed /\ DemoDiscovered /\ osArgs = <<tD>>) =>
          /\ mainRet.err = NoError
          /\ Deref(mainRet.result).ContextPath = <<"D">>

\* C12, what main does: it parses the command line on the registry of the
\* built-in contexts alone, before LoadPlugins is called.
C12_ParsesBeforeLoading ==
    [][mainRet' # mainRet => (lpc = "idle" /\ contexts = BuiltIns)]_vars

\* the letter of a discovered plugin was asked for and main has exited with
\* code 1 on "unknown context", LoadPlugins never called
C12_PluginLetterRejected ==
    /\ MainParsed /\ DemoDiscovered /\ osArgs = <<tD>>
    /\ mainRet.err = ParseError("unknown context", <<"D">>)
    /\ mpc = "exit" /\ mainExit = Ptr(1) /\ lpc = "idle"

----------------------------------------------------------------------------
(* Further properties of the plugin bootstrap (checked under SpecLoad).    *)

\* LoadPlugins has returned after its workers ran
LoadReturned == lpc = "done" /\ Len(scripts) > 0

\* worker w's child wrote a valid document and exited 0 in time
Succeeded(w) == scripts[w].behaviour = "ok"

\* test.sh and time.sh were both discovered: two valid documents for the
\* letter T with different scripts
ConflictingPair ==
    \E v, w \in Workers :
        /\ v # w /\ Succeeded(v) /\ Succeeded(w)
        /\ DocNode(v).Context = DocNode(w).Context
        /\ DocNode(v).Script # DocNode(w).Script

\* the position in ctxChan of the first node with the letter of the k-th
FirstOfLetter(k) ==
    CHOOSE j \in 1..Len(ctxChan) :
        /\ ctxChan[j].Context = ctxChan[k].Context
        /\ \A i \in 1..(j - 1) : ctxChan[i].Context # ctxChan[k].Context

\* C13: when two discovered plugins emit valid documents for the same
\* letter with different scripts, LoadPlugins registers exactly one of them,
\* the one whose worker completed first, does not register the other, still
\* registers every plugin that has no conflict (with another plugin or with
\* a built-in context), and returns no error on account of the conflict: its
\* error is nil or the error of a worker.
C13_ConflictIsWarning ==
    (LoadReturned /\ ConflictingPair) =>
        /\ \A k \in 1..Len(ctxChan) :
              /\ ctxChan[k].Context \in DOMAIN contexts
              /\ \/ contexts[ctxChan[k].Context] = ctxChan[FirstOfLetter(k)]
                 \/ HeldByBuiltIn(ctxChan[k].Context)
        /\ \A v, w \in Workers :
              (v # w /\ Succeeded(v) /\ Succeeded(w)
                 /\ DocNode(v).Context = DocNode(w).Context
                 /\ DocNode(v).Script # DocNode(w).Script)
              => ( contexts[DocNode(v).Context] = DocNode(v)
                   <=> contexts[DocNode(w).Context] # DocNode(w) )
        /\ Len(errChan) = 0 => loadRet = NoError
        /\ Len(errChan) > 0 => \E k \in 1..Len(errChan) : loadRet = << errChan[k] >>
        /\ \A k \in 1..Len(errChan) : errChan[k].kind \in {"failed", "parse", "timeout"}

\* the plugin that comes second in the directory was registered, the first
\* was not, a third plugin was registered, and LoadPlugins returned nil
C13_Witness ==
    /\ LoadReturned /\ ConflictingPair /\ Len(scripts) = 3 /\ Len(ctxChan) = 3
    /\ loadRet = NoError
    /\ \E v, w \in Workers :
          /\ v < w /\ DocNode(v).Context = DocNode(w).Context
          /\ contexts[DocNode(w).Context] = DocNode(w)
    /\ "D" \in DOMAIN contexts /\ contexts["D"] = DemoNode

\* worker w's child exited non-zero, or wrote something that is not a document
Failed(w) == scripts[w].behaviour \in {"fail", "other"}

\* the errors in errChan that name script w
ErrorsOf(w) == { k \in 1..Len(errChan) : errChan[k].script = scripts[w].name }

NoCandidates ==
    \/ pluginDir.state = "missing"
    \/ /\ pluginDir.state = "dir"
       /\ \A k \in 1..Len(pluginDir.entries) :
             \/ pluginDir.entries[k].isDir
             \/ pluginDir.entries[k].hidden
             \/ ~pluginDir.entries[k].executable

\* C15: with a missing plugin directory, or one that yields no candidate,
\* LoadPlugins returns nil, launches no worker and leaves the registry as
\* it was.
C15_NoCandidates ==
    [][(lpc = "idle" /\ lpc' # "idle" /\ NoCandidates) =>
         ( /\ lpc' = "done" /\ loadRet' = NoError
           /\ contexts' = contexts
           /\ scripts' = <<>> /\ wpc' = <<>> /\ child' = <<>>
           /\ ctxChan' = <<>> /\ errChan' = <<>> )]_vars

\* LoadPlugins has returned nil on a directory that exists and holds
\* entries, none of them a candidate
C15_Witness ==
    /\ lpc = "done" /\ NoCandidates /\ loadRet = NoError
    /\ pluginDir.state = "dir" /\ Len(pluginDir.entries) > 0
    /\ contexts = BuiltIns

\* C20: LoadPlugins makes no Register call until every worker has
\* finished, and a child is killed only by its own worker, on that worker's
\* own timeout: no failure or timeout touches another worker's child.
C20_JoinAll ==
    [][ /\ contexts' # contexts => \A w \in Workers : wpc[w] = "done"
        /\ \A w \in DOMAIN killed' :
              ( /\ w \in DOMAIN killed
                /\ \/ killed'[w] # killed[w]
                   \/ (child'[w] = "killed" /\ child[w] # "killed") )
              => ( /\ wpc[w] = "select" /\ wpc'[w] = "done"
                   /\ scripts[w].behaviour = "slow"
                   /\ \A v \in Workers \ {w} : wpc'[v] = wpc[v] /\ child'[v] = child[v] )
      ]_vars

\* the registry has grown after three workers were done, one of which
\* failed and one of which timed out, with the third child never killed
C20_Witness ==
    /\ lpc = "done" /\ Len(scripts) = 3 /\ Len(ctxChan) = 1
    /\ \E u, v, w \in Workers :
          /\ scripts[u].behaviour = "fail" /\ scripts[v].behaviour = "slow"
          /\ Succeeded(w) /\ ~killed[w] /\ killed[v]
          /\ contexts[DocNode(w).Context] = DocNode(w)

----------------------------------------------------------------------------
(* Properties of concurrent callers (checked under SpecConc).              *)

AllDone == \A t \in Callers : cpc[t] = "done"

\* the goroutines that call Register with a node of letter l
RegistersOf(l) ==
    { t \in Callers : ccall[t].name = "Register" /\ ccall[t].ctx.Context = l }

PairwiseDifferentScripts(R) ==
    \A a, b \in R : a # b => ccall[a].ctx.Script # ccall[b].ctx.Script

\* exactly one call of R succeeded, the others returned the conflict with
\* it, and the registry holds its node
OneWinner(l, R) ==
    \E t \in R :
        /\ cret[t] = << NoError >>
        /\ l \in DOMAIN contexts /\ contexts[l] = ccall[t].ctx
        /\ \A u \in R \ {t} :
              cret[u] = << ConflictError(l, ccall[t].ctx.Script, ccall[u].ctx.Script) >>

\* a goroutine is inside Lookup or GetAllContexts, holding the read lock
Reading(t) == cpc[t] \in {"read", "range", "runlock"}

\* C16: Register is safe under concurrent callers.  In every interleaving,
\* of the concurrent Register calls on one letter with pairwise different
\* scripts exactly one succeeds, every other returns the conflict error and
\* the registry holds the successful call's node; no goroutine reads the map
\* while it is written, no registration takes effect while a Lookup or
\* GetAllContexts is under way, and the slice GetAllContexts has built at
\* the end of its loop is the registry's content.
C16_ConcurrentRegister ==
    /\ [](~torn)
    /\ [](AllDone =>
            \A l \in {"T", "O"} :
                (RegistersOf(l) # {} /\ PairwiseDifferentScripts(RegistersOf(l)))
                  => OneWinner(l, RegistersOf(l)))
    /\ [][ /\ (\E t \in Callers : Reading(t)) => contexts' = contexts
           /\ \A t \in Callers :
                 (cpc[t] = "range" /\ cpc'[t] = "runlock")
                   => cret'[t] \in GetAllContextsOp(contexts) ]_vars

\* two goroutines registered different scripts for T while a third called
\* GetAllContexts: one won, the other got the conflict, and the third saw
\* the registry with the winner in it
C16_Witness ==
    /\ AllDone
    /\ Cardinality(RegistersOf("T")) = 2 /\ PairwiseDifferentScripts(RegistersOf("T"))
    /\ \E t \in RegistersOf("T"), u \in Callers :
          /\ cret[t] # << NoError >>
          /\ ccall[u].name = "GetAllContexts" /\ Len(cret[u]) = 1

----------------------------------------------------------------------------
(* Properties of ExecutePlugin (checked under SpecExec).                   *)

\* ExecutePlugin has launched the script and the child has exited by itself
ChildExited ==
    exOp = "ExecutePlugin" /\ exLaunched # Nil /\ Deref(exChild).kind = "exit"

\* ExecutePlugin was called with an empty or non-existent script path
NoScript ==
    exOp = "ExecutePlugin" /\ (Deref(exCtx).Script = <<>> \/ exFile = "missing")

\* C18: ExecutePlugin returns the child's exit code as it is, and for an
\* empty or non-existent script path it launches nothing and returns a
\* fixed non-zero code that no exit of a child can produce.
C18_ExitCodes ==
    /\ ChildExited => exRet = Ptr(Deref(exChild).code)
    /\ NoScript => (exLaunched = Nil /\ exRet = Ptr(ExecInternalError))
    /\ ExecInternalError # 0
    /\ ChildExited => exRet # Ptr(ExecInternalError)

\* C18 without the last part: the exit code is propagated, and without a
\* script nothing is launched and the fixed non-zero code is returned.
C18_PropagatesExitCode ==
    /\ ChildExited => exRet = Ptr(Deref(exChild).code)
    /\ NoScript => (exLaunched = Nil /\ exRet = Ptr(ExecInternalError))
    /\ ExecInternalError # 0

\* a child that ran "exit 1" made ExecutePlugin return the code it also
\* returns when there is no script
C18_SameCodeReached ==
    ChildExited /\ Deref(exChild).code = 1 /\ exRet = Ptr(ExecInternalError)

----------------------------------------------------------------------------
(* Properties of the keys of the flag map (checked under Spec).            *)

\* the flags of a node and of every node below it
RECURSIVE FlagsBelow(_)
FlagsBelow(n) ==
    { n.Flags[k] : k \in 1..Len(n.Flags) }
    \cup (IF n.SubNil THEN {}
          ELSE UNION { FlagsBelow(n.SubContexts[l]) : l \in DOMAIN n.SubContexts })

\* every flag declared in the registry
RegistryFlags == UNION { FlagsBelow(contexts[l]) : l \in DOMAIN contexts }

\* Parse has returned a result
ParseSucceeded == op = "Parse" /\ parseRet.err = NoError /\ parseRet.result # Nil

\* C19: after a successful Parse every key of the flag map is the long name
\* of a declared flag if that name is non-empty and otherwise the flag's
\* one-character short name; the empty string is never a key.
C19_FlagKeys ==
    ParseSucceeded =>
        /\ \A key \in DOMAIN Deref(parseRet.result).Flags :
               \E flag \in RegistryFlags : key = FlagKey(flag)
        /\ <<>> \notin DOMAIN Deref(parseRet.result).Flags

\* C19 for the keys that are not empty: each is the long name of a declared
\* flag, or the short name of a declared flag that has no long name.
C19_NonEmptyKeys ==
    ParseSucceeded =>
        \A key \in DOMAIN Deref(parseRet.result).Flags :
           key # <<>> => \E flag \in RegistryFlags : key = FlagKey(flag)

\* "-T --" with a context T whose flag has no long name: the value is
\* stored under the empty key
C19_EmptyKeyReached ==
    /\ ParseSucceeded
    /\ parseArgs = <<tT, tDashDash>>
    /\ <<>> \in DOMAIN Deref(parseRet.result).Flags

\* a flag without a long name matched by its short character is stored
\* under that character
C19_ShortKeyReached ==
    /\ ParseSucceeded
    /\ <<"s">> \in DOMAIN Deref(parseRet.result).Flags
    /\ <<>> \notin DOMAIN Deref(parseRet.result).Flags

----------------------------------------------------------------------------
(* Properties of the loops of Parse (checked under SpecParse).             *)

\* the state of the loops before and after a step
Cur == Deref(pps)
Nxt == Deref(pps')

\* a pass of a loop of Parse is taken
LoopStep == pps # Nil /\ pps' # Nil /\ pps' # pps

\* the outer loop is about to look at a token
AtToken == pps # Nil /\ Cur.status = "run" /\ ~Cur.inCluster /\ Cur.i < Len(parseArgs)

CurToken == parseArgs[Cur.i + 1]

\* the outer loop is about to look at a "--name" token
AtLong == AtToken /\ HasPrefix(CurToken, <<"-","-">>)

CurName == DropFirst(CurToken, 2)

\* the outer loop is about to look at a positional token
AtPositional ==
    AtToken /\ ~HasPrefix(CurToken, <<"-","-">>)
            /\ ~(HasPrefix(CurToken, <<"-">>) /\ Len(CurToken) > 1)

\* the inner loop is about to look at a character of a cluster
AtChar ==
    /\ pps # Nil /\ Cur.status = "run" /\ Cur.inCluster
    /\ Cur.flagIdx < Len(parseArgs[Cur.i + 1]) - 1

CurChar == parseArgs[Cur.i + 1][Cur.flagIdx + 2]

\* C21: the token --help and the character h of a cluster set the help flag
\* and step over themselves only: no token is consumed, the cursor, the
\* path, the resolved context and the flag map stay as they are, whatever
\* flags the current context declares; the help flag is never cleared.
C21_HelpReserved ==
    [][LoopStep =>
         /\ (AtLong /\ CurName = sHelp)
               => Nxt = [Cur EXCEPT !.ShowHelp = TRUE, !.i = Cur.i + 1]
         /\ (AtChar /\ CurChar = "h")
               => Nxt = [Cur EXCEPT !.ShowHelp = TRUE, !.flagIdx = Cur.flagIdx + 1]
         /\ Cur.ShowHelp => Nxt.ShowHelp]_vars

\* --help has been met in a context that declares a flag h/help: the help
\* flag is set and the flag map holds no help
C21_Witness ==
    /\ pps # Nil /\ ~Cur.inCluster /\ Cur.i >= 1
    /\ parseArgs[Cur.i] = tHelp
    /\ Cur.cur = Ptr(DupNode)
    /\ \E k \in 1..Len(DupNode.Flags) :
          DupNode.Flags[k].Short = "h" /\ DupNode.Flags[k].Long = sHelp
    /\ Cur.ShowHelp
    /\ sHelp \notin DOMAIN Cur.Flags

\* the cursor has a sub-context with the letter ch
IsSubContext(ch) ==
    Cur.cur # Nil /\ ~Deref(Cur.cur).SubNil /\ ch \in DOMAIN Deref(Cur.cur).SubContexts

\* C22: an uppercase letter of a cluster that is a sub-context of the cursor
\* moves the cursor there and appends the letter to the path; one that is
\* not (or with the cursor unset) but is a registered root moves the cursor
\* to the root and replaces the path with that letter alone.
C22_RootSwitchResetsPath ==
    [][(LoopStep /\ AtChar /\ CurChar \in UpperRunes) =>
         /\ IsSubContext(CurChar)
               => Nxt = [Cur EXCEPT !.cur = Ptr(Deref(Cur.cur).SubContexts[CurChar]),
                                    !.Context = Ptr(Deref(Cur.cur).SubContexts[CurChar]),
                                    !.ContextPath = Append(Cur.ContextPath, CurChar),
                                    !.flagIdx = Cur.flagIdx + 1]
         /\ (~IsSubContext(CurChar) /\ CurChar \in DOMAIN contexts)
               => Nxt = [Cur EXCEPT !.cur = Ptr(contexts[CurChar]),
                                    !.Context = Ptr(contexts[CurChar]),
                                    !.ContextPath = <<CurChar>>,
                                    !.flagIdx = Cur.flagIdx + 1]]_vars

\* "-T -O -T": the path [T, O] has been replaced with [T]
C22_Witness ==
    /\ pps # Nil /\ parseArgs = <<tT, tO, tT>>
    /\ Cur.i = 2 /\ Cur.inCluster /\ Cur.flagIdx = 1
    /\ Cur.ContextPath = <<"T">> /\ Cur.cur = Ptr(TimeNode)
    /\ Ptr([Cur EXCEPT !.cur = Ptr(OvertimeNode), !.Context = Ptr(OvertimeNode),
                       !.ContextPath = <<"T", "O">>, !.flagIdx = 0])
          \in { Ptr(ps) : ps \in ParseStates(contexts, parseArgs) }

\* the cursor a flag is looked up with: S if the cursor is unset and S is
\* registered
DefCur ==
    IF Cur.cur # Nil THEN Cur.cur
    ELSE IF "S" \in DOMAIN contexts THEN Ptr(contexts["S"]) ELSE Nil

\* the flags of the context a flag is looked up in
DefFlags == IF DefCur = Nil THEN <<>> ELSE Deref(DefCur).Flags

\* the sub-contexts of that context, and the roots, with the long name name
SubsNamed(name) ==
    IF DefCur = Nil \/ Deref(DefCur).SubNil THEN {}
    ELSE { c \in { Deref(DefCur).SubContexts[l] : l \in DOMAIN Deref(DefCur).SubContexts } :
             c.ContextLong = name }

RootsNamed(name) ==
    { c \in { contexts[l] : l \in DOMAIN contexts } : c.ContextLong = name }

\* the loops' state after a switch to the context c by its long name
SwitchedByName(c) ==
    [Cur EXCEPT !.cur = Ptr(c), !.Context = Ptr(c),
                !.ContextPath = Append(Cur.ContextPath, c.Context),
                !.i = Cur.i + 1]

\* the current context declares a flag with the long name name
DeclaresLong(name) == \E k \in 1..Len(DefFlags) : DefFlags[k].Long = name

UnsetWithShell == pps # Nil /\ Cur.cur = Nil /\ "S" \in DOMAIN contexts

\* the loop is about to look at a character that is looked up as a flag
AtFlagChar == AtChar /\ CurChar # "h" /\ CurChar \notin UpperRunes

\* the flags of S with the short name ch
ShellFlagsShort(ch) ==
    { k \in 1..Len(contexts["S"].Flags) : contexts["S"].Flags[k].Short = ch }

\* C24: a call starts with the cursor unset.  With the cursor unset, a flag
\* character or a long flag other than help first sets the cursor and the
\* resolved context to the root S and is then matched against the flags of
\* S (a long name that is no flag of S may then switch the cursor by name);
\* an uppercase letter or a positional token never sets them to S.
C24_DefaultContext ==
    [][/\ (pps = Nil /\ pps' # Nil) => (Nxt.cur = Nil /\ Nxt.Context = Nil)
       /\ (LoopStep /\ UnsetWithShell /\ AtFlagChar) =>
             /\ Nxt.cur = Ptr(contexts["S"]) /\ Nxt.Context = Ptr(contexts["S"])
             /\ IF ShellFlagsShort(CurChar) = {}
                THEN Nxt.status = "err" /\ Nxt.err = ParseError("unknown flag", <<CurChar>>)
                ELSE \/ Nxt.status = "err"
                        /\ Nxt.err = ParseError("requires an argument", <<CurChar>>)
                     \/ \E k \in ShellFlagsShort(CurChar) :
                           FlagKey(contexts["S"].Flags[k]) \in DOMAIN Nxt.Flags
       /\ (LoopStep /\ UnsetWithShell /\ AtLong /\ CurName # sHelp) =>
             \/ Nxt.cur = Ptr(contexts["S"]) /\ Nxt.Context = Ptr(contexts["S"])
                /\ (Nxt.status = "run" => (DeclaresLong(CurName) /\ CurName \in DOMAIN Nxt.Flags))
             \/ ~DeclaresLong(CurName)
                /\ \E c \in SubsNamed(CurName) \cup RootsNamed(CurName) :
                      Nxt = SwitchedByName(c)
       /\ (LoopStep /\ pps # Nil /\ Cur.cur = Nil /\ AtChar /\ CurChar \in UpperRunes) =>
             \/ Nxt.cur = Nil /\ Nxt.Context = Nil /\ Nxt.status = "err"
             \/ Nxt.cur = Ptr(contexts[CurChar]) /\ Nxt.Context = Nxt.cur
       /\ (LoopStep /\ AtPositional) =>
             (Nxt.cur = Cur.cur /\ Nxt.Context = Cur.Context)]_vars

\* "-c 5" as the first tokens: the cursor and the resolved context are S and
\* the flag -c of S has taken its value
C24_Witness ==
    /\ pps # Nil /\ Len(parseArgs) >= 2 /\ parseArgs[1] = tc /\ parseArgs[2] = t5
    /\ Cur.i = 2 /\ ~Cur.inCluster
    /\ Cur.cur = Ptr(ShellNode) /\ Cur.Context = Ptr(ShellNode)
    /\ contexts["S"] = ShellNode
    /\ Cur.Flags = [k \in {sCommand} |-> t5]

\* C25: a token that is neither a --name token nor a cluster, the lone "-"
\* included, is appended as it is to the leftover list and stepped over;
\* cursor, path, flag map and help flag stay as they are and the loop goes
\* on with the next token.
C25_PositionalTokens ==
    [][LoopStep =>
         /\ AtPositional
               => Nxt = [Cur EXCEPT !.Args = Append(Cur.Args, CurToken), !.i = Cur.i + 1]
         /\ (AtToken /\ CurToken \in {tDash, t5, <<>>}) => AtPositional
         /\ ~AtPositional => Nxt.Args = Cur.Args]_vars

\* "- 5 -T": both positional tokens are in the leftover list, in input
\* order, and the context switch after them has been made
C25_Witness ==
    /\ pps # Nil /\ parseArgs = <<tDash, t5, tT>>
    /\ Cur.status = "ok"
    /\ Cur.Args = <<tDash, t5>>
    /\ Cur.ContextPath = <<"T">>

\* the loops' state once the cursor has defaulted to S
DefState ==
    [Cur EXCEPT !.cur = DefCur,
                !.Context = IF Cur.cur = Nil /\ DefCur # Nil THEN DefCur ELSE Cur.Context]

\* the flags of the current context with the short name ch, the long name name
DeclaredShort(ch) == { k \in 1..Len(DefFlags) : DefFlags[k].Short = ch }
DeclaredLong(name) == { k \in 1..Len(DefFlags) : DefFlags[k].Long = name }

\* the character the loop looks at is the last one of its cluster
LastInCluster == Cur.flagIdx = Len(parseArgs[Cur.i + 1]) - 2

HasNextToken == Cur.i + 1 < Len(parseArgs)

\* the loops' state after the flag f has taken the next token as its value
\* under the key key
ValueTaken(key) ==
    [DefState EXCEPT !.Flags = MapPut(Cur.Flags, key, parseArgs[Cur.i + 2]),
                     !.i = Cur.i + 2, !.inCluster = FALSE]

\* C26: a matched value-requiring flag, short (last in its cluster) or long,
\* records the whole next token as it is and steps over it, whatever that
\* token looks like; a matched boolean flag records "true" and steps over
\* its character or its own token only.
C26_ValueConsumption ==
    [][LoopStep =>
         /\ (AtFlagChar /\ DeclaredShort(CurChar) # {}) =>
               \E k \in DeclaredShort(CurChar) :
                 /\ (DefFlags[k].ArgName # <<>> /\ LastInCluster /\ HasNextToken)
                       => Nxt = ValueTaken(FlagKey(DefFlags[k]))
                 /\ DefFlags[k].ArgName = <<>>
                       => Nxt = [DefState EXCEPT
                                   !.Flags = MapPut(Cur.Flags, FlagKey(DefFlags[k]), sTrue),
                                   !.flagIdx = Cur.flagIdx + 1]
         /\ (AtLong /\ CurName # sHelp /\ DeclaredLong(CurName) # {}) =>
               \E k \in DeclaredLong(CurName) :
                 /\ (DefFlags[k].ArgName # <<>> /\ HasNextToken)
                       => Nxt = ValueTaken(DefFlags[k].Long)
                 /\ DefFlags[k].ArgName = <<>>
                       => Nxt = [DefState EXCEPT
                                   !.Flags = MapPut(Cur.Flags, DefFlags[k].Long, sTrue),
                                   !.i = Cur.i + 1]]_vars

\* "-T -ohf --time": -o has recorded "true", the cluster has gone on to f,
\* and f has taken the token --time as its value: the path is still [T]
C26_Witness ==
    /\ pps # Nil /\ parseArgs = <<tT, tohf, tTime>>
    /\ Cur.status = "ok"
    /\ Cur.Flags = [k \in {sOffline, sFrom} |-> IF k = sOffline THEN sTrue ELSE tTime]
    /\ Cur.ContextPath = <<"T">> /\ Cur.Args = <<>>

\* the first of the indices S of a flag list
FirstOf(S) == CHOOSE k \in S : \A j \in S : k <= j

\* the loop looks at the last character of a cluster, a flag of the current
\* context that requires a value, and no token follows
ShortValueAtEnd ==
    /\ AtFlagChar /\ DeclaredShort(CurChar) # {}
    /\ DefFlags[FirstOf(DeclaredShort(CurChar))].ArgName # <<>>
    /\ LastInCluster /\ ~HasNextToken

\* the loop looks at the long name of a flag of the current context that
\* requires a value, and no token follows
LongValueAtEnd ==
    /\ AtLong /\ CurName # sHelp /\ DeclaredLong(CurName) # {}
    /\ DefFlags[FirstOf(DeclaredLong(CurName))].ArgName # <<>>
    /\ ~HasNextToken

MissingArgument(ps) == ps.status = "err" /\ ps.err[1].kind = "requires an argument"

\* C27: a value-requiring flag of the current context, met as the last
\* character of a cluster or by its long name with no token after it, makes
\* Parse fail with the missing-argument error and return no result; the
\* name is not tried as a context and the call does not succeed.
C27_MissingArgumentAtEnd ==
    [][/\ (LoopStep /\ (ShortValueAtEnd \/ LongValueAtEnd)) => MissingArgument(Nxt)
       /\ (pps # Nil /\ MissingArgument(Cur) /\ op' = "Parse")
             => (parseRet'.result = Nil /\ parseRet'.err = Cur.err)]_vars

\* C27 for the short form alone.
C27_ShortMissingArgument ==
    [][/\ (LoopStep /\ ShortValueAtEnd) => MissingArgument(Nxt)
       /\ (pps # Nil /\ MissingArgument(Cur) /\ op' = "Parse")
             => (parseRet'.result = Nil /\ parseRet'.err = Cur.err)]_vars

\* the long form: the step ends in the unknown-flag error, or in a switch
\* to a context that has the flag's long name
C27_LongFallsThrough ==
    [][(LoopStep /\ LongValueAtEnd) =>
         \/ Nxt.status = "err" /\ Nxt.err = ParseError("unknown flag", CurToken)
         \/ \E c \in SubsNamed(CurName) \cup RootsNamed(CurName) :
               Nxt = SwitchedByName(c)]_vars

\* "-T --from" with a root named from: Parse has succeeded with path [T, F]
C27_SucceedsReached ==
    /\ op = "Parse" /\ parseArgs = <<tT, tFrom>>
    /\ parseRet.err = NoError /\ parseRet.result # Nil
    /\ Deref(parseRet.result).ContextPath = <<"T", "F">>
    /\ Deref(parseRet.result).Flags = EmptyMap

\* "-T --from" without such a root: Parse has failed with the unknown-flag
\* error
C27_UnknownFlagReached ==
    /\ op = "Parse" /\ parseArgs = <<tT, tFrom>>
    /\ parseRet = Failure("unknown flag", tFrom)

\* some context of the registry, but not the current one, declares a flag
\* with the short name ch, the long name name
\* (after the cursor has been switched to a context)
ShortOnlyElsewhere(ch) ==
    /\ Cur.ContextPath # <<>>
    /\ DeclaredShort(ch) = {} /\ \E f \in RegistryFlags : f.Short = ch

LongOnlyElsewhere(name) ==
    /\ Cur.ContextPath # <<>>
    /\ DeclaredLong(name) = {} /\ \E f \in RegistryFlags : f.Long = name

UnknownFlag(ps, name) == ps.status = "err" /\ ps.err = ParseError("unknown flag", name)

FirstShort(ch) == DefFlags[FirstOf(DeclaredShort(ch))]
FirstLong(name) == DefFlags[FirstOf(DeclaredLong(name))]

\* C29: a short character or a long name that several flags of the current
\* context carry is resolved to the first of them in list order: its
\* argument name decides whether the next token is consumed, and its key
\* receives the value; a later duplicate is never selected.
C29_FirstMatchWins ==
    [][LoopStep =>
         /\ (AtFlagChar /\ DeclaredShort(CurChar) # {}) =>
               IF FirstShort(CurChar).ArgName = <<>>
               THEN Nxt = [DefState EXCEPT
                             !.Flags = MapPut(Cur.Flags, FlagKey(FirstShort(CurChar)), sTrue),
                             !.flagIdx = Cur.flagIdx + 1]
               ELSE IF LastInCluster /\ HasNextToken
               THEN Nxt = ValueTaken(FlagKey(FirstShort(CurChar)))
               ELSE MissingArgument(Nxt) /\ Nxt.Flags = Cur.Flags
         /\ (AtLong /\ CurName # sHelp /\ DeclaredLong(CurName) # {}) =>
               IF FirstLong(CurName).ArgName = <<>>
               THEN Nxt = [DefState EXCEPT
                             !.Flags = MapPut(Cur.Flags, CurName, sTrue),
                             !.i = Cur.i + 1]
               ELSE IF HasNextToken
               THEN Nxt = ValueTaken(CurName)
               ELSE Nxt.Flags = Cur.Flags]_vars

\* "-O -f 5" in a context with two flags f, the first --from <days>, the
\* second the boolean --verbose: from has received "5"; and "-O --from" at
\* the end of the input has not selected the boolean flag that also has the
\* long name from
C29_Witness ==
    /\ pps # Nil /\ parseArgs = <<tO, tf, t5>>
    /\ Cur.status = "ok" /\ Cur.cur = Ptr(DupNode)
    /\ Cardinality({ k \in 1..Len(DupNode.Flags) : DupNode.Flags[k].Short = "f" }) = 2
    /\ Cardinality({ k \in 1..Len(DupNode.Flags) : DupNode.Flags[k].Long = sFrom }) = 2
    /\ Cur.Flags = [k \in {sFrom} |-> t5]
    /\ \A ps \in ParseStates(contexts, <<tO, tFrom>>) : ps.Flags = EmptyMap

\* a pass that goes on moves forward: to a later token, into the cluster
\* at the current token, or to a later character of that cluster
Advances ==
    \/ Nxt.i > Cur.i
    \/ Nxt.i = Cur.i /\ ~Cur.inCluster /\ Nxt.inCluster
    \/ Nxt.i = Cur.i /\ Cur.inCluster /\ Nxt.inCluster /\ Nxt.flagIdx > Cur.flagIdx

\* the tokens a pass steps over: the current one, and after it only the
\* token it has just recorded as a flag's value
StepsOver ==
    \/ Nxt.i = Cur.i
    \/ Nxt.i = Cur.i + 1 /\ Nxt.i <= Len(parseArgs)
    \/ /\ Nxt.i = Cur.i + 2 /\ Nxt.i <= Len(parseArgs)
       /\ \E key \in DOMAIN Nxt.Flags :
             Nxt.Flags = MapPut(Cur.Flags, key, parseArgs[Cur.i + 2])

\* C30: every pass of the loops of Parse moves forward in the token list
\* or in the current cluster, never back; a token is stepped over once, as
\* a long flag, a cluster, a positional or the value of the flag before it;
\* a call returns a result only when every token has been stepped over, and
\* every call returns, with either a result or an error.
C30_SinglePass ==
    /\ [][LoopStep =>
            /\ Nxt.status = "run" => Advances
            /\ Nxt.status = "err" => (Nxt.i = Cur.i /\ Nxt.flagIdx = Cur.flagIdx)
            /\ Nxt.status = "ok" => (Nxt.i = Cur.i /\ Cur.i = Len(parseArgs))
            /\ StepsOver]_vars
    /\ [](op = "Parse" => (parseRet.result = Nil) # (parseRet.err = NoError))
    /\ []<>(op # "Parsing")

\* "--time -ohf 5": a long name, a cluster and a flag's value have been
\* stepped over and Parse has returned its result
C30_Witness ==
    /\ op = "Parse" /\ pps # Nil /\ parseArgs = <<tTime, tohf, t5>>
    /\ Cur.status = "ok" /\ Cur.i = 3
    /\ parseRet.err = NoError
    /\ Deref(parseRet.result).Flags =
          [k \in {sOffline, sFrom} |-> IF k = sOffline THEN sTrue ELSE t5]

----------------------------------------------------------------------------
(* Properties of the grammar of plugin definitions (checked under          *)
(* SpecArgs).                                                              *)

\* parsePluginDefinition has just returned for hArgs
DefinitionParsed == hOp = "parsePluginDefinition"

\* a token "--<long>" with a long name of one character or more
IsLongToken(arg) == HasPrefix(arg, <<"-", "-">>) /\ Len(arg) > 2

\* the definition is accepted exactly if the tokens from the 0-based index
\* rest on parse as flag and sub-context definitions, and the node then has
\* this letter, long name and description and those flags and sub-contexts
HeaderYields(letter, long, desc, rest) ==
    LET body == parseFlagsAndSubContexts(DropFirst(hArgs, rest), hScript)
    IN  /\ (hDef[1].err = NoError) <=> (body.err = NoError)
        /\ hDef[1].err = NoError =>
              /\ Deref(hDef[1].ctx).Context = letter
              /\ Deref(hDef[1].ctx).ContextLong = long
              /\ Deref(hDef[1].ctx).Description = desc
              /\ Deref(hDef[1].ctx).Flags = body.flags
              /\ Deref(hDef[1].ctx).SubContexts = body.subContexts

\* hArgs begins "--<long> <desc>"
LongHeader == Len(hArgs) >= 2 /\ IsLongToken(hArgs[1])

\* hArgs begins "-<UPPER> <desc>", the description not being a "--" token
LetterHeader ==
    /\ Len(hArgs) >= 2 /\ IsShortToken(hArgs[1], UpperRunes)
    /\ ~HasPrefix(hArgs[2], <<"-", "-">>)

\* hArgs begins "-<UPPER> --<long> <desc>"
FullHeader ==
    /\ Len(hArgs) >= 3 /\ IsShortToken(hArgs[1], UpperRunes)
    /\ HasPrefix(hArgs[2], <<"-", "-">>)

\* C31: "--<long> <desc>" yields the upper-cased first character of <long>
\* as the letter, "-<UPPER> <desc>" the lower-cased letter as the long name,
\* "-<UPPER> --<long> <desc>" both as given; the description is the token
\* right after the header, and all the remaining tokens are parsed as flag
\* and sub-context definitions.
C31_HeaderForms ==
    DefinitionParsed =>
        /\ LongHeader =>
              HeaderYields(UpperOf(hArgs[1][3]), DropFirst(hArgs[1], 2), hArgs[2], 2)
        /\ LetterHeader =>
              HeaderYields(hArgs[1][2], << LowerOf(hArgs[1][2]) >>, hArgs[2], 2)
        /\ FullHeader =>
              HeaderYields(hArgs[1][2], DropFirst(hArgs[2], 2), hArgs[3], 3)

\* "--time desc -o desc" has been accepted as the node T with one flag
C31_Witness ==
    /\ DefinitionParsed /\ LongHeader /\ hDef[1].err = NoError
    /\ hArgs = <<tTime, sDescription, to, sDescription>>
    /\ Deref(hDef[1].ctx).Context = "T"
    /\ Len(Deref(hDef[1].ctx).Flags) = 1

\* the 0-based index of the first token after the header and its description
HeaderRest == IF FullHeader THEN 3 ELSE 2

\* hArgs begins with one of the three header forms
HeaderGiven == LongHeader \/ LetterHeader \/ FullHeader

\* the positions of the "-<UPPER>" tokens after the header
SubStarts ==
    { i \in (HeaderRest + 1)..Len(hArgs) : IsShortToken(hArgs[i], UpperRunes) }

\* the position of the first "-<UPPER>" token after position i, or the end
NextStart(i) ==
    IF \E j \in SubStarts : j > i
    THEN CHOOSE j \in SubStarts : j > i /\ \A k \in SubStarts : k > i => j <= k
    ELSE Len(hArgs) + 1

\* the tokens of the sub-context definition that starts at position i
Segment(i) == SubSeq(hArgs, i, NextStart(i) - 1)

\* the flag definitions between the header and the first sub-context
ParentFlags == SubSeq(hArgs, HeaderRest + 1, NextStart(HeaderRest) - 1)

\* the last definition of each sub-context letter
LastStarts ==
    { i \in SubStarts : \A j \in SubStarts : j > i => hArgs[j][2] # hArgs[i][2] }

\* the sub-context of the accepted node is what the grammar of the top level
\* yields for the segment that starts at i
SubContextAsTopLevel(i) ==
    LET top == Deref(parsePluginDefinition(Segment(i), hScript).ctx)
        node == Deref(hDef[1].ctx)
    IN  /\ hArgs[i][2] \in DOMAIN node.SubContexts
        /\ node.SubContexts[hArgs[i][2]].Context = top.Context
        /\ node.SubContexts[hArgs[i][2]].ContextLong = top.ContextLong
        /\ node.SubContexts[hArgs[i][2]].Description = top.Description
        /\ node.SubContexts[hArgs[i][2]].Flags = top.Flags

\* a definition with sub-contexts: the header, flags of the parent that
\* parse, and segments for which Ok holds
WithSubContexts(Ok(_)) ==
    /\ DefinitionParsed /\ HeaderGiven /\ SubStarts # {}
    /\ parseFlagsAndSubContexts(ParentFlags, hScript).err = NoError
    /\ \A i \in SubStarts : Ok(i)

\* the definition is accepted, the flags before the first sub-context are
\* the parent's, and every sub-context is as the top level would parse it
SubContextsParsed ==
    /\ hDef[1].err = NoError
    /\ Deref(hDef[1].ctx).Flags = parseFlagsAndSubContexts(ParentFlags, hScript).flags
    /\ \A i \in LastStarts : SubContextAsTopLevel(i)

\* the segment at i is a definition by the grammar of the top level
ValidAtTopLevel(i) == parsePluginDefinition(Segment(i), hScript).err = NoError

\* the segment at i is valid and begins "-<UPPER> --<long> <desc>"
ValidWithLongName(i) ==
    /\ ValidAtTopLevel(i)
    /\ Len(Segment(i)) >= 3 /\ HasPrefix(Segment(i)[2], <<"-", "-">>)

\* C32: a "-<UPPER>" token after the header starts a sub-context definition
\* that is parsed with the grammar of the top level (so "-O <desc>" is valid
\* and derives the long name "o"), up to the next "-<UPPER>" token or the
\* end; the flags that follow belong to the sub-context, not to the parent.
C32_SubContextGrammar ==
    WithSubContexts(ValidAtTopLevel) => SubContextsParsed

\* C32, for sub-contexts written "-<UPPER> --<long> <desc>": it holds.
C32_SubContextWithLongName ==
    WithSubContexts(ValidWithLongName) => SubContextsParsed

\* "-O --overtime desc -o desc" after a header: -o is a flag of -O
C32_LongSubContextReached ==
    /\ WithSubContexts(ValidWithLongName) /\ SubContextsParsed
    /\ Len(Deref(hDef[1].ctx).Flags) = 0
    /\ "O" \in DOMAIN Deref(hDef[1].ctx).SubContexts
    /\ Len(Deref(hDef[1].ctx).SubContexts["O"].Flags) = 1

\* "-O desc" after a header is refused
C32_ShortSubContextRefused ==
    /\ WithSubContexts(ValidAtTopLevel) /\ hDef[1].err # NoError
    /\ hArgs = <<tT, tTime, sDescription, tO, sDescription>>

\* parseFlag has just returned for hArgs
FlagParsed == hOp = "parseFlag"

\* 1 if hArgs begins with a short name "-<lower>", else 0
ShortGiven == IF Len(hArgs) >= 1 /\ IsShortToken(hArgs[1], LowerRunes) THEN 1 ELSE 0

\* 1 if the token after the short name, if any, is a long name "--<long>"
LongGiven ==
    IF Len(hArgs) > ShortGiven /\ IsLongToken(hArgs[ShortGiven + 1]) THEN 1 ELSE 0

\* the tokens that make the names of the flag
NameTokens == ShortGiven + LongGiven

\* the tokens right after the names, before the first one that begins "-"
NonFlagTokens ==
    LET stop == { k \in (NameTokens + 1)..Len(hArgs) : HasPrefix(hArgs[k], <<"-">>) }
        end == IF stop = {} THEN Len(hArgs) + 1
               ELSE CHOOSE k \in stop : \A j \in stop : k <= j
    IN  end - NameTokens - 1

\* what parseFlag returned
FlagResult == hDef[1]

IsDash(arg) == HasPrefix(arg, <<"-">>)

\* the 0-based index of the first token after the header of the list a and
\* its description
RestOf(a) ==
    IF Len(a) >= 3 /\ IsShortToken(a[1], UpperRunes) /\ HasPrefix(a[2], <<"-", "-">>)
    THEN 3 ELSE 2

\* the header letter is lowercase
LowercaseHeader(a) == Len(a) >= 1 /\ IsShortToken(a[1], LowerRunes)

\* the list ends with the header: there is no description
HeaderOnly(a) ==
    \/ Len(a) = 1 /\ IsDash(a[1])
    \/ Len(a) = 2 /\ IsShortToken(a[1], UpperRunes) /\ HasPrefix(a[2], <<"-", "-">>)

\* the first token is not a flag
FirstNotAFlag(a) == Len(a) >= 1 /\ ~IsDash(a[1])

\* a flag definition that begins with no name: a non-flag token right after
\* the description of the header, or a third non-flag token in a row
NamelessFlag(a) ==
    \/ Len(a) > RestOf(a) /\ ~IsDash(a[RestOf(a) + 1])
    \/ \E k \in (RestOf(a) + 1)..(Len(a) - 2) :
          ~IsDash(a[k]) /\ ~IsDash(a[k + 1]) /\ ~IsDash(a[k + 2])

\* the name of a flag at position k (not the long name of a sub-context)
IsFlagName(a, k) ==
    /\ IsDash(a[k]) /\ ~IsShortToken(a[k], UpperRunes)
    /\ ~IsShortToken(a[k - 1], UpperRunes)

\* a flag definition whose names are followed by the end of the list or by
\* the next definition
FlagWithoutDescription(a) ==
    \E k \in (RestOf(a) + 1)..Len(a) :
        /\ IsFlagName(a, k)
        /\ \/ k = Len(a)
           \/ /\ IsDash(a[k + 1])
              /\ ~(IsShortToken(a[k], LowerRunes) /\ HasPrefix(a[k + 1], <<"-", "-">>))

\* the malformed self-descriptions
Malformed(a) ==
    \/ LowercaseHeader(a)
    \/ HeaderOnly(a)
    \/ FirstNotAFlag(a)
    \/ NamelessFlag(a)
    \/ FlagWithoutDescription(a)

\* "args --register <tokens>" has just returned
RegisterReturned ==
    hOp = "HandleArgs" /\ Len(hArgs) > 0 /\ hArgs[1] = tRegister

LettersAreCapitals ==
    /\ Deref(hDef[1].ctx).Context \in UpperRunes
    /\ \A l \in DOMAIN Deref(hDef[1].ctx).SubContexts :
          Deref(hDef[1].ctx).SubContexts[l].Context \in UpperRunes

\* C37: every node produced by parsePluginDefinition, the root and each of
\* its sub-contexts, has a context letter in 'A'..'Z', for all three header
\* forms, the one that derives the letter from the long name included.
C37_LettersInRange == DefinitionAccepted => LettersAreCapitals

\* the long name of the header "--<long>" begins with a letter
LongNameBeginsWithLetter ==
    LongHeader => hArgs[1][3] \in UpperRunes \cup LowerRunes

\* C37, for headers whose letter is given or whose long name begins with a
\* letter: it holds.
C37_LettersOfNames ==
    (DefinitionAccepted /\ LongNameBeginsWithLetter) => LettersAreCapitals

\* "--time desc -O --overtime desc" has given the letters T and O
C37_DerivedLetterReached ==
    /\ DefinitionAccepted /\ LongHeader /\ LettersAreCapitals
    /\ Deref(hDef[1].ctx).Context = "T"
    /\ "O" \in DOMAIN Deref(hDef[1].ctx).SubContexts

\* "--1abc desc" has given the letter '1'
C37_DigitLetterReached ==
    /\ DefinitionAccepted /\ hArgs = <<tNumber, sDescription>>
    /\ Deref(hDef[1].ctx).Context = "1"

----------------------------------------------------------------------------
(* Properties of the result of Parse (checked under SpecParse).            *)

\* what a Parse that succeeded has returned
Result == Deref(parseRet.result)

\* C35: after every successful Parse whose context path is non-empty,
\* Lookup(result.ContextPath) returns exactly result.Context, for every mix
\* of short-cluster switches, long-name switches, sub-context descents and
\* root resets in the input.
C35_PathContextAgreement ==
    (ParseSucceeded /\ Result.ContextPath # <<>>) =>
        Lookup(contexts, Result.ContextPath) = Result.Context

\* no token of the input is a "--name" token
NoLongToken == \A k \in 1..Len(parseArgs) : ~HasPrefix(parseArgs[k], <<"-", "-">>)

\* C35, for inputs that switch by short clusters only: it holds.
C35_ClusterSwitchesAgree ==
    (ParseSucceeded /\ Result.ContextPath # <<>> /\ NoLongToken) =>
        Lookup(contexts, Result.ContextPath) = Result.Context

\* "-T -O -T": a descent and a root reset, path and context agree
C35_ResetReached ==
    /\ ParseSucceeded /\ parseArgs = <<tT, tO, tT>>
    /\ Result.ContextPath = <<"T">> /\ Result.Context = Ptr(TimeNode)

\* "--time --time": the path is T,T and the context is the root T
C35_DoubledPathReached ==
    /\ ParseSucceeded /\ parseArgs = <<tTime, tTime>>
    /\ Result.ContextPath = <<"T", "T">> /\ Result.Context = Ptr(TimeNode)
    /\ Lookup(contexts, Result.ContextPath) = Nil

\* C36: after every successful Parse, the resolved context is none if and
\* only if the context path is empty.
C36_ContextIffPath ==
    ParseSucceeded => ((Result.Context = Nil) <=> (Result.ContextPath = <<>>))

\* C36, for a registry without the root S: it holds.
C36_WithoutShell ==
    (ParseSucceeded /\ "S" \notin DOMAIN contexts) =>
        ((Result.Context = Nil) <=> (Result.ContextPath = <<>>))

\* "-T 5" without the root S: a context and a path
C36_SwitchReached ==
    /\ ParseSucceeded /\ "S" \notin DOMAIN contexts /\ parseArgs = <<tT, t5>>
    /\ Result.Context = Ptr(TimeNode) /\ Result.ContextPath = <<"T">>

\* "-c 5" with the root S: the context is S and the path is empty
C36_DefaultReached ==
    /\ ParseSucceeded /\ parseArgs = <<tc, t5>>
    /\ Result.Context = Ptr(ShellNode) /\ Result.ContextPath = <<>>

\* the values the step from Cur can record: "true" or the next token
StepValues == {sTrue} \cup (IF HasNextToken THEN {parseArgs[Cur.i + 2]} ELSE {})

\* Parse returns its result: "return result, nil"
ReturnsResult ==
    pps # Nil /\ op' = "Parse" /\ parseRet'.err = NoError /\ parseRet'.result # Nil

\* C40: the flag map is never cleared during a parse: no pass of a loop
\* removes a key, a context switch (sub-context descent, long-name switch or
\* root reset) leaves the map as it is, a flag that is recorded replaces the
\* value its key had before, and the map that is returned is the map so
\* built.
C40_FlagMapKept ==
    [][/\ LoopStep =>
            /\ DOMAIN Cur.Flags \subseteq DOMAIN Nxt.Flags
            /\ Nxt.ContextPath # Cur.ContextPath => Nxt.Flags = Cur.Flags
            /\ Nxt.Flags # Cur.Flags =>
                  \E key \in DOMAIN Nxt.Flags, v \in StepValues :
                      Nxt.Flags = MapPut(Cur.Flags, key, v)
       /\ ReturnsResult => Deref(parseRet'.result).Flags = Cur.Flags]_vars

\* "-c 5 -T": the value recorded on S is still there after the switch to T
C40_Witness ==
    /\ pps # Nil /\ parseArgs = <<tc, t5, tT>>
    /\ Cur.i = 3 /\ Cur.status = "run"
    /\ Cur.ContextPath = <<"T">> /\ Cur.cur = Ptr(TimeNode)
    /\ Cur.Flags = MapPut(EmptyMap, sCommand, t5)

\* "-O -ohf 5": the key "from" was recorded as "true" by -o and then as "5"
\* by -f, and the returned map holds "5"
C40_LastValueReached ==
    /\ ParseSucceeded /\ parseArgs = <<tO, tohf, t5>>
    /\ Result.Flags = MapPut(EmptyMap, sFrom, t5)

----------------------------------------------------------------------------
(* Properties of the plugin loader with the built-in contexts (checked     *)
(* under SpecLoad and SpecLoadLive).                                       *)

\* Lookup finds the built-in nodes S and A, with their flags
BuiltInsFound ==
    /\ Lookup(contexts, <<"S">>) = Ptr(ShellNode)
    /\ Lookup(contexts, <<"A">>) = Ptr(ArgsNode)

\* C38: when the built-in roots S and A are registered before LoadPlugins,
\* then after it, whatever documents the plugins emit and in whatever order
\* they complete, Lookup(['S']) and Lookup(['A']) still return the built-in
\* nodes with their flags: no step of LoadPlugins displaces them.
C38_BuiltInsKept == [][BuiltInsFound => BuiltInsFound']_vars

\* LoadPlugins has returned after two plugins have delivered documents for
\* the letters S and A, and the built-in nodes are still found
C38_Witness ==
    /\ lpc = "done" /\ BuiltInsFound
    /\ \E j, k \in 1..Len(ctxChan) :
          ctxChan[j].Context = "S" /\ ctxChan[k].Context = "A"

\* the workers that have delivered their outcome and returned
Delivered == { w \in Workers : wpc[w] = "done" }

\* LoadPlugins is past wg.Wait(), having started workers
Joined == lpc = "done" /\ Len(scripts) > 0

\* a worker sends a node or an error
Sends == Len(ctxChan') + Len(errChan') > Len(ctxChan) + Len(errChan)

\* C39: each worker delivers exactly one outcome, a node or an error, into
\* a channel that has room for it, so after the join the collected nodes and
\* errors are as many as the discovered scripts; and LoadPlugins returns,
\* the timeout being finite, even if the slow children never exit.
C39_AlwaysReturns ==
    /\ [](Len(ctxChan) + Len(errChan) = Cardinality(Delivered))
    /\ [][Sends => /\ Len(ctxChan) < Len(scripts) /\ Len(errChan) < Len(scripts)
                   /\ Len(ctxChan') + Len(errChan') = Len(ctxChan) + Len(errChan) + 1]_vars
    /\ [](Joined => Len(ctxChan) + Len(errChan) = Len(scripts))
    /\ []<>(lpc # "wait")

\* LoadPlugins has returned for three scripts, one of them slow and never
\* killed nor exited: two nodes and one error
C39_Witness ==
    /\ Joined /\ Len(scripts) = 3
    /\ \E w \in Workers : scripts[w].behaviour = "slow" /\ child[w] = "running"
    /\ Len(ctxChan) = 2 /\ Len(errChan) = 1

============================================================================
